---- MODULE Spec2Model ----
(***************************************************************************)
(* Model of the data preparation and aggregation pipeline of the          *)
(* long-term-diseases dashboard (utils/prep.py, utils/io.py, and the      *)
(* department normalisation of sections/map_section.py).                   *)
(*                                                                         *)
(* A table (pandas DataFrame) is a sequence of rows; a row is a record     *)
(* with one field per column of the typed table.  The set `columns` says   *)
(* which columns the table has; the fields of an absent column hold the    *)
(* null value and are never read by a correct operation.                   *)
(*                                                                         *)
(* Text cells (dept, cla_age_5) are sequences of one-character strings so  *)
(* that zero-padding and the age-class regular expression are computed     *)
(* character by character.  Numbers are integers; a result of the          *)
(* population union is kept in HALF units (twice its value) because the    *)
(* median of an even number of values is the mean of the two middle ones.  *)
(* Populations are non-negative (spec, data model), so negative integers   *)
(* are free to stand for the null cell and for NaN.                        *)
(***************************************************************************)
EXTENDS Integers, Sequences, FiniteSets, TLC

VARIABLES
    df,         \* the table the pipeline works on (sequence of rows)
    columns,    \* the column names of df
    dtypes,     \* dtype of each measure column of df
    last,       \* the last call made on df and what it returned
    tables,     \* result of the last make_tables call
    tables_prev,\* result of the make_tables call before it
    calls,      \* number of make_tables calls made on df
    csv,        \* source file: [exists, mtime, content]
    parquet,    \* cache artifact: [exists, mtime, content]
    clock,      \* file-system clock
    ret,        \* outcome of the last load_parquet_cached call
    text,       \* bytes of a delimited text file
    sep,        \* separator detected for text
    raw,        \* table as read: header names and rows of text cells
    typed,      \* outcome of the last coercion of raw
    memo,       \* st.cache_data entry of load_and_prepare for its arguments
    prepared    \* outcome of the last load_and_prepare call

vars == <<df, columns, dtypes, last, tables, tables_prev, calls,
          csv, parquet, clock, ret, text, sep, raw, typed, memo, prepared>>

tableVars == <<df, columns, dtypes, last, tables, tables_prev, calls>>
cacheVars == <<csv, parquet, clock, ret>>
ingestVars == <<text, sep, raw, typed>>
appVars == <<memo, prepared>>

-----------------------------------------------------------------------------
(* Bounds *)

MaxRows == 3        \* rows of a table over CoreRows (population union)
MaxRowsWide == 2    \* rows of a table over RowUniverse (population union)
MaxAdd == 2         \* rows of a slice added to a table
MaxRowsT == 3       \* rows of a table in the table-builder specification
MaxCalls == 2       \* make_tables calls on one table
MaxClock == 2       \* ticks of the file-system clock
MaxVersion == 2     \* versions of the source file content
MaxFileLen == 6     \* bytes of a delimited text file
MaxHeaderLen == 3   \* characters of a column header
MaxRawRows == 2     \* rows of a table as read with several rows
MaxHeaders == 2     \* headers of a table with one-character headers
SampleBytes == 5    \* bytes of the head read for separator detection
                    \* (4096 in read_csv_flexible, scaled to the file size)

-----------------------------------------------------------------------------
(* Cell values *)

NA == -1                 \* null cell of a numeric column (pd.NA / NaN)
NaN == -2                \* float("nan") returned by a function
NullStr == <<"<NA>">>    \* null cell of a text column
NoRegion == "<NA>"       \* null cell of the region column

Digits == {"0", "1", "2", "3", "4", "5", "6", "7", "8", "9"}

Methods == {"median", "min", "max", "first"}

DimColumns == <<"annee", "region", "dept", "sexe", "cla_age_5">>
MeasureColumns == <<"ntop", "npop", "prev">>

RECURSIVE SeqToSet(_)
SeqToSet(s) == IF s = <<>> THEN {} ELSE {Head(s)} \cup SeqToSet(Tail(s))

AllColumns == SeqToSet(DimColumns) \cup SeqToSet(MeasureColumns)

RECURSIVE SumSeq(_)
SumSeq(s) == IF s = <<>> THEN 0 ELSE Head(s) + SumSeq(Tail(s))

RECURSIVE SumSet(_, _)
SumSet(S, f) ==
    IF S = {} THEN 0
    ELSE LET x == CHOOSE y \in S : TRUE IN f[x] + SumSet(S \ {x}, f)

SeqsUpTo(S, n) == UNION {[1..k -> S] : k \in 0..n}

-----------------------------------------------------------------------------
(* Text helpers *)

\* Series.astype(str): a missing cell becomes the text "nan"
AsTypeStr(s) == IF s = NullStr THEN <<"n", "a", "n">> ELSE s

\* str.zfill(width): left-pad with "0" (no cell of the model carries a sign)
RECURSIVE zfill(_, _)
zfill(s, width) == IF Len(s) >= width THEN s ELSE zfill(<<"0">> \o s, width)

IsSpace(c) == c \in {" ", "\t"}

\* str.strip()
RECURSIVE lstrip(_)
lstrip(s) == IF s # <<>> /\ IsSpace(Head(s)) THEN lstrip(Tail(s)) ELSE s

RECURSIVE rstrip(_)
rstrip(s) ==
    IF s # <<>> /\ IsSpace(s[Len(s)]) THEN rstrip(SubSeq(s, 1, Len(s) - 1)) ELSE s

strip(s) == rstrip(lstrip(s))

\* re.IGNORECASE for the letters the pattern contains
Lower(c) ==
    CASE c = "E" -> "e" [] c = "T" -> "t" [] c = "P" -> "p"
      [] c = "L" -> "l" [] c = "U" -> "u" [] c = "S" -> "s"
      [] OTHER -> c

\* index of the first character at or after i that is not white space
RECURSIVE SkipWs(_, _)
SkipWs(s, i) == IF i <= Len(s) /\ IsSpace(s[i]) THEN SkipWs(s, i + 1) ELSE i

\* index just after the run of digits that starts at i
RECURSIVE SkipDigits(_, _)
SkipDigits(s, i) == IF i <= Len(s) /\ s[i] \in Digits THEN SkipDigits(s, i + 1) ELSE i

\* the literal w (lower case) occurs at i, ignoring case
Literal(s, i, w) ==
    /\ i + Len(w) - 1 <= Len(s)
    /\ \A k \in 1..Len(w) : Lower(s[i + k - 1]) = w[k]

\* ^\s*\d{1,2}\s*-\s*\d{1,2}\s*$
MatchRange(s) ==
    LET a == SkipWs(s, 1)
        b == SkipDigits(s, a)
        c == SkipWs(s, b)
        d == SkipWs(s, c + 1)
        e == SkipDigits(s, d)
    IN  /\ b - a \in 1..2
        /\ Literal(s, c, <<"-">>)
        /\ e - d \in 1..2
        /\ SkipWs(s, e) = Len(s) + 1

\* ^\s*\d{1,2}\s*\+\s*$
MatchPlus(s) ==
    LET a == SkipWs(s, 1)
        b == SkipDigits(s, a)
        c == SkipWs(s, b)
    IN  /\ b - a \in 1..2
        /\ Literal(s, c, <<"+">>)
        /\ SkipWs(s, c + 1) = Len(s) + 1

\* ^\s*\d{2}\s*et\s*plus\s*$
MatchEtPlus(s) ==
    LET a == SkipWs(s, 1)
        b == SkipDigits(s, a)
        c == SkipWs(s, b)
        d == SkipWs(s, c + 2)
    IN  /\ b - a = 2
        /\ Literal(s, c, <<"e", "t">>)
        /\ Literal(s, d, <<"p", "l", "u", "s">>)
        /\ SkipWs(s, d + 4) = Len(s) + 1

_AGE_5Y_PATTERN(s) == MatchRange(s) \/ MatchPlus(s) \/ MatchEtPlus(s)

-----------------------------------------------------------------------------
(* Population deduplication and union *)

\* the year column of a typed table is already a nullable integer
_ensure_year(a) == a

Filter(t, Keep(_)) == SelectSeq(t, Keep)

\* the 999 test of the scope filter, on the zero-padded code
NotAggregateMut(r) == r.dept # <<"9", "9">>
NotAggregate(r) == r.dept # <<"9", "9", "9">>

\* the age-class test of the scope filter, on the raw label
AgeInScopeMut(r) ==
    /\ Len(strip(AsTypeStr(r.cla_age_5))) > 0
    /\ MatchRange(AsTypeStr(r.cla_age_5))
AgeInScope(r) ==
    /\ Len(strip(AsTypeStr(r.cla_age_5))) > 0
    /\ _AGE_5Y_PATTERN(AsTypeStr(r.cla_age_5))

_filter_population_scope(t, cols) ==
    LET s0 == IF "annee" \in cols
              THEN [i \in 1..Len(t) |-> [t[i] EXCEPT !.annee = _ensure_year(@)]]
              ELSE t
        s1 == IF "dept" \in cols
              THEN Filter([i \in 1..Len(s0) |->
                              [s0[i] EXCEPT !.dept = zfill(AsTypeStr(@), 3)]],
                          NotAggregate)
              ELSE s0
        s2 == IF "cla_age_5" \in cols THEN Filter(s1, AgeInScope) ELSE s1
    IN  s2

\* Sorted copy of a sequence of integers (ascending)
RECURSIVE Insert(_, _)
Insert(x, s) ==
    IF s = <<>> THEN <<x>>
    ELSE IF x <= Head(s) THEN <<x>> \o s
    ELSE <<Head(s)>> \o Insert(x, Tail(s))

RECURSIVE SortInts(_)
SortInts(s) == IF s = <<>> THEN <<>> ELSE Insert(Head(s), SortInts(Tail(s)))

\* the reducers of groupby(...).agg, in half units, on a non-empty group
median(v) ==
    LET s == SortInts(v)
        n == Len(s)
    IN  IF n % 2 = 1 THEN 2 * s[(n + 1) \div 2]
        ELSE s[n \div 2] + s[n \div 2 + 1]

minMut(v) == 2 * v[1]
min(v) == 2 * SortInts(v)[1]
maxMut(v) == 2 * SortInts(v)[1]
max(v) == 2 * SortInts(v)[Len(v)]
first(v) == 2 * v[1]

agg(method, v) ==
    CASE method = "median" -> median(v)
      [] method = "min" -> min(v)
      [] method = "max" -> max(v)
      [] method = "first" -> first(v)

\* grouping key of a row
SliceKeyMut(r, cols) == <<r.dept>>
SliceKey(r, cols) ==
    IF "cla_age_5" \in cols THEN <<r.dept, r.cla_age_5>> ELSE <<r.dept>>

\* the distinct values of Key over t, in order of first appearance
RECURSIVE GroupKeys(_, _, _)
GroupKeys(t, Key(_), seen) ==
    IF t = <<>> THEN <<>>
    ELSE IF Key(Head(t)) \in seen THEN GroupKeys(Tail(t), Key, seen)
    ELSE <<Key(Head(t))>> \o GroupKeys(Tail(t), Key, seen \cup {Key(Head(t))})

\* the npop values of the rows of t whose key is k, in row order
GroupNpop(t, Key(_), k) ==
    LET InGroup(r) == Key(r) = k
        g == Filter(t, InGroup)
    IN  [i \in 1..Len(g) |-> g[i].npop]

\* one reduced population per slice
_dedup_npop_per_sliceMut(tmp, cols, method) ==
    [i \in 1..Len(tmp) |-> 2 * tmp[i].npop]
_dedup_npop_per_slice(tmp, cols, method) ==
    LET Key(r) == SliceKey(r, cols)
        keys == GroupKeys(tmp, Key, {})
    IN  [i \in 1..Len(keys) |-> agg(method, GroupNpop(tmp, Key, keys[i]))]

HasNpop(r) == r.npop # NA
HasYear(r) == r.annee # NA

\* the column assignments of _filter_population_scope: the year cast and
\* the zero-padded department code
ScopeAssignments(t, cols) ==
    [i \in 1..Len(t) |->
        [t[i] EXCEPT !.annee = IF "annee" \in cols THEN _ensure_year(@) ELSE @,
                     !.dept = IF "dept" \in cols THEN zfill(AsTypeStr(@), 3) ELSE @]]

\* the table the caller holds once a union function has returned:
\* out = df.copy() makes the assignments go to a copy
AfterScopeFilter(input, work) == input

RequiredColumns == {"annee", "dept", "npop"}

population_union_for_year(t, cols, year, method) ==
    IF ~(RequiredColumns \subseteq cols) THEN NaN
    ELSE LET OfYear(r) == r.annee = year
             tmp == Filter(_filter_population_scope(t, cols), OfYear)
         IN  IF tmp = <<>> THEN NaN
             ELSE SumSeq(_dedup_npop_per_slice(Filter(tmp, HasNpop), cols, method))

\* rows of a by-year frame, sorted by year
RECURSIVE InsertYear(_, _)
InsertYear(x, s) ==
    IF s = <<>> THEN <<x>>
    ELSE IF x.annee <= Head(s).annee THEN <<x>> \o s
    ELSE <<Head(s)>> \o InsertYear(x, Tail(s))

RECURSIVE SortByYear(_)
SortByYear(s) == IF s = <<>> THEN <<>> ELSE InsertYear(Head(s), SortByYear(Tail(s)))

population_union_by_year(t, cols, method) ==
    IF ~(RequiredColumns \subseteq cols) THEN <<>>
    ELSE LET Usable(r) == HasYear(r) /\ HasNpop(r)
             tmp == Filter(_filter_population_scope(t, cols), Usable)
             YearKey(r) == r.annee
             years == GroupKeys(tmp, YearKey, {})
             OfYear(y) == LET Is(r) == r.annee = y IN Filter(tmp, Is)
         IN  IF tmp = <<>> THEN <<>>
             ELSE SortByYear([i \in 1..Len(years) |->
                     [annee |-> years[i],
                      npop_union |->
                          SumSeq(_dedup_npop_per_slice(OfYear(years[i]), cols, method))]])

\* a slice holds several population values: n_unique > 1
IsMultiMut(n_unique) == n_unique >= 1
IsMulti(n_unique) == n_unique > 1

NoAudit == [slices |-> 0, multi_values |-> 0]

\* population_union_audit(df, year).  categorical: the age-class column is
\* categorical (a typed table) and not plain text; groupby(observed=False)
\* then counts one group for every (department of tmp, category) pair, the
\* groups without rows having n_unique = 0.
population_union_audit(t, cols, year, categorical) ==
    IF ~(RequiredColumns \subseteq cols) THEN NoAudit
    ELSE LET OfYear(r) == r.annee = year
             tmp == Filter(Filter(_filter_population_scope(t, cols), OfYear), HasNpop)
             Key(r) == SliceKey(r, cols)
             keys == GroupKeys(tmp, Key, {})
             n_unique == [i \in 1..Len(keys) |->
                             Cardinality(SeqToSet(GroupNpop(tmp, Key, keys[i])))]
             depts == {tmp[i].dept : i \in 1..Len(tmp)}
             cats == {t[i].cla_age_5 : i \in 1..Len(t)} \ {NullStr}
         IN  IF tmp = <<>> THEN NoAudit
             ELSE [slices |-> IF "cla_age_5" \in cols /\ categorical
                              THEN Cardinality(depts) * Cardinality(cats)
                              ELSE Len(keys),
                   multi_values |->
                       Cardinality({i \in 1..Len(keys) : IsMulti(n_unique[i])})]

-----------------------------------------------------------------------------
(* Tables of the population-union specification *)

Row(a, d, c, n) ==
    [annee |-> a, region |-> NoRegion, dept |-> d, sexe |-> NA,
     cla_age_5 |-> c, ntop |-> NA, npop |-> n, prev |-> NA]

D001 == <<"0", "0", "1">>
D1 == <<"1">>
D002 == <<"0", "0", "2">>
D99 == <<"9", "9">>
D999 == <<"9", "9", "9">>

A0_4 == <<"0", "-", "4">>
A95plus == <<"9", "5", "+">>
A95etplus == <<"9", "5", " ", "E", "t", " ", "p", "l", "u", "s">>
ATous == <<"t", "o", "u", "s">>
ABlank == <<" ">>

Years == {2022, 2023}

\* rows every table of the specification is built from
CoreRows ==
    { Row(2023, D001, A0_4, 1000),
      Row(2023, D001, A0_4, 999),
      Row(2023, D001, A95plus, 500),
      Row(2023, D999, A0_4, 5000),
      Row(2023, D001, ATous, 4000) }

\* the rarer rows, used in the shorter tables
RowUniverse ==
    CoreRows \cup
    { Row(2022, D1, A0_4, 700),
      Row(2023, D002, A0_4, NA),
      Row(2022, D99, A95etplus, 300),
      Row(NA, D001, A0_4, 1000),
      Row(2023, D001, NullStr, 300),
      Row(2022, D001, ABlank, 300) }

UnionTables ==
    SeqsUpTo(CoreRows, MaxRows) \cup SeqsUpTo(RowUniverse, MaxRowsWide)

\* the rows of one (year, department, age-class) slice, population positive
NewSlices ==
    { t \in SeqsUpTo(RowUniverse, MaxAdd) :
        /\ t # <<>>
        /\ \A i \in 1..Len(t) :
              /\ t[i].annee = t[1].annee
              /\ t[i].annee # NA
              /\ t[i].npop > 0
              /\ zfill(AsTypeStr(t[i].dept), 3) = zfill(AsTypeStr(t[1].dept), 3)
              /\ t[i].cla_age_5 = t[1].cla_age_5 }

\* one slice repeated in five pathology rows (spec, testable properties)
ExampleSlice ==
    << Row(2023, D001, A0_4, 1000), Row(2023, D001, A0_4, 1000),
       Row(2023, D001, A0_4, 1000), Row(2023, D001, A0_4, 999),
       Row(2023, D001, A0_4, 1000) >>

UnionColumns == {"annee", "dept", "cla_age_5", "npop"}

UnionColumnSets ==
    { UnionColumns, {"annee", "dept", "npop"}, {"annee", "dept", "cla_age_5"} }

NullRow ==
    [annee |-> NA, region |-> NoRegion, dept |-> NullStr, sexe |-> NA,
     cla_age_5 |-> NullStr, ntop |-> NA, npop |-> NA, prev |-> NA]

\* a table that has only the columns cols: the other fields are null
ProjectRow(r, cols) ==
    [c \in DOMAIN NullRow |-> IF c \in cols THEN r[c] ELSE NullRow[c]]

Project(t, cols) == [i \in 1..Len(t) |-> ProjectRow(t[i], cols)]

NoDtypes == [c \in SeqToSet(MeasureColumns) |-> "absent"]

NoCall ==
    [op |-> "none", year |-> 0, method |-> "none", result |-> NaN,
     frame |-> <<>>, before |-> <<>>, before_dtypes |-> NoDtypes,
     audit |-> NoAudit, categorical |-> FALSE, kpi |-> "none"]

NoTables ==
    [keys |-> {}, raised |-> FALSE, fine |-> <<>>, timeseries |-> <<>>,
     by_region |-> <<>>, by_region_weighted |-> <<>>, by_sexe_desc |-> <<>>,
     dq |-> <<>>]

NoFile == [exists |-> FALSE, mtime |-> 0, content |-> 0]

NoEnv == [dir_ok |-> TRUE, cache_ok |-> TRUE, src_ok |-> TRUE]

NoRet ==
    [op |-> "none", outcome |-> "none", table |-> 0, raised |-> "",
     csv_before |-> NoFile, parquet_before |-> NoFile,
     parquet_after |-> NoFile, write_ok |-> FALSE, env |-> NoEnv, at |-> 0]

\* no file has been read and no table coerced
NoRaw == [header |-> <<>>, rows |-> <<>>]
NoTyped == [op |-> "none", raised |-> FALSE, columns |-> <<>>, rows |-> <<>>]
NoIngest == text = <<>> /\ sep = "none" /\ raw = NoRaw /\ typed = NoTyped

\* load_and_prepare has not been called: nothing is memoized
NoMemo == [present |-> FALSE, version |-> 0]
NoPrepared ==
    [outcome |-> "none", version |-> 0, raised |-> "",
     csv_before |-> NoFile, parquet_before |-> NoFile]
NoApp == memo = NoMemo /\ prepared = NoPrepared

NumericDtypes == [c \in SeqToSet(MeasureColumns) |-> "float32"]

InitUnion ==
    /\ NoIngest
    /\ NoApp
    /\ columns \in UnionColumnSets
    /\ \E t \in UnionTables \cup {ExampleSlice} :
           df = Project(t, columns)
    /\ dtypes = NumericDtypes
    /\ last = NoCall
    /\ tables = NoTables
    /\ tables_prev = NoTables
    /\ calls = 0
    /\ csv = NoFile
    /\ parquet = NoFile
    /\ clock = 0
    /\ ret = NoRet

\* population_union_for_year(df, year, method)
UnionForYear(year, method) ==
    /\ UNCHANGED ingestVars
    /\ UNCHANGED appVars
    /\ last' = [NoCall EXCEPT !.op = "for_year", !.year = year, !.method = method,
                   !.result = population_union_for_year(df, columns, year, method)]
    /\ df' = AfterScopeFilter(df, ScopeAssignments(df, columns))
    /\ UNCHANGED <<columns, dtypes, tables, tables_prev, calls>>
    /\ UNCHANGED cacheVars

\* population_union_by_year(df, method)
UnionByYear(method) ==
    /\ UNCHANGED ingestVars
    /\ UNCHANGED appVars
    /\ last' = [NoCall EXCEPT !.op = "by_year", !.method = method,
                   !.frame = population_union_by_year(df, columns, method)]
    /\ df' = AfterScopeFilter(df, ScopeAssignments(df, columns))
    /\ UNCHANGED <<columns, dtypes, tables, tables_prev, calls>>
    /\ UNCHANGED cacheVars

\* population_union_audit(df, year)
UnionAudit(year, categorical) ==
    /\ UNCHANGED ingestVars
    /\ UNCHANGED appVars
    /\ last' = [NoCall EXCEPT !.op = "audit", !.year = year, !.before = df,
                   !.categorical = categorical,
                   !.audit = population_union_audit(df, columns, year, categorical)]
    /\ df' = AfterScopeFilter(df, ScopeAssignments(df, columns))
    /\ UNCHANGED <<columns, dtypes, tables, tables_prev, calls>>
    /\ UNCHANGED cacheVars

\* the slice a row belongs to, on the normalised department code
NormKey(r, cols) ==
    IF "cla_age_5" \in cols
    THEN <<zfill(AsTypeStr(r.dept), 3), r.cla_age_5>>
    ELSE <<zfill(AsTypeStr(r.dept), 3)>>

\* table t with columns cols is one of the tables of the specification
InUnionTables(t, cols) ==
    \/ Len(t) <= MaxRowsWide
    \/ /\ Len(t) <= MaxRows
       /\ \A i \in 1..Len(t) : t[i] \in {ProjectRow(r, cols) : r \in CoreRows}

\* The data of one year gains the rows of a new slice with positive
\* population.
AddSlice(slice) ==
    /\ UNCHANGED ingestVars
    /\ UNCHANGED appVars
    /\ RequiredColumns \subseteq columns
    /\ InUnionTables(df \o Project(slice, columns), columns)
    /\ \A i \in 1..Len(df) :
          df[i].annee = slice[1].annee
              => NormKey(df[i], columns) # NormKey(slice[1], columns)
    /\ df' = df \o Project(slice, columns)
    /\ last' = [NoCall EXCEPT !.op = "add_slice", !.year = slice[1].annee,
                   !.before = df]
    /\ UNCHANGED <<columns, dtypes, tables, tables_prev, calls>>
    /\ UNCHANGED cacheVars

NextUnion ==
    \/ \E y \in Years, m \in Methods : UnionForYear(y, m)
    \/ \E m \in Methods : UnionByYear(m)
    \/ \E t \in NewSlices : AddSlice(t)

SpecUnion == InitUnion /\ [][NextUnion]_vars

\* the union of one year and its audit, on the same tables
NextAudit ==
    \/ \E y \in Years, m \in Methods : UnionForYear(y, m)
    \/ \E y \in Years, c \in BOOLEAN : UnionAudit(y, c)

SpecAudit == InitUnion /\ [][NextAudit]_vars

-----------------------------------------------------------------------------
(* Population union: what the claims say, stated on sets of row numbers     *)

\* the age-class labels of the model that are 5-year buckets
FiveYearLabels == {A0_4, A95plus, A95etplus}

\* row r is inside the population scope
InScope(r, cols) ==
    /\ zfill(AsTypeStr(r.dept), 3) # D999
    /\ "cla_age_5" \in cols => r.cla_age_5 \in FiveYearLabels

\* numbers of the rows of t that count for the union of a year
UsableRows(t, cols, year) ==
    {i \in 1..Len(t) : InScope(t[i], cols) /\ t[i].annee = year /\ t[i].npop # NA}

\* k-th smallest population among the rows I of t
KthSmallest(t, I, k) ==
    CHOOSE x \in {t[i].npop : i \in I} :
        /\ Cardinality({i \in I : t[i].npop < x}) < k
        /\ k <= Cardinality({i \in I : t[i].npop <= x})

\* the reduced population of the rows I of t, in half units
Reduce(method, t, I) ==
    LET n == Cardinality(I)
        lowest == CHOOSE i \in I : \A j \in I : i <= j
    IN  CASE method = "median" ->
                 KthSmallest(t, I, (n + 1) \div 2) + KthSmallest(t, I, (n + 2) \div 2)
          [] method = "min" -> 2 * KthSmallest(t, I, 1)
          [] method = "max" -> 2 * KthSmallest(t, I, n)
          [] method = "first" -> 2 * t[lowest].npop

\* sum over the slices of a year of the reduced population of each slice
SliceSum(t, cols, year, method) ==
    LET I == UsableRows(t, cols, year)
        keys == {NormKey(t[i], cols) : i \in I}
        value == [k \in keys |->
                     Reduce(method, t, {i \in I : NormKey(t[i], cols) = k})]
    IN  SumSet(keys, value)

FullExample == df = Project(ExampleSlice, columns) /\ columns = UnionColumns

\* C1: population_union_for_year counts every in-scope (department,
\* age-class) slice of the year once: whenever it returns a number, the
\* number is the sum over the slices of the reducer applied to the slice's
\* populations, however many rows repeat the slice; the slice ("001", "0-4")
\* in five rows with populations 1000, 1000, 1000, 999, 1000 gives 1000
\* under the median.
C1_UnionCountsEachSliceOnce ==
    last.op = "for_year" /\ last.result # NaN =>
        /\ last.result = SliceSum(df, columns, last.year, last.method)
        /\ FullExample /\ last.year = 2023 /\ last.method = "median"
               => last.result = 2 * 1000

C1_Witness ==
    /\ FullExample
    /\ last.op = "for_year" /\ last.year = 2023 /\ last.method = "median"
    /\ last.result = 2 * 1000

\* table t without the rows that are outside the population scope
ScopedRows(t, cols) ==
    LET Keep(r) == InScope(r, cols) IN SelectSeq(t, Keep)

\* C2: rows outside the population scope never contribute to the union, for
\* one year or by year: the result is the one obtained on the table without
\* the rows whose department pads to "999" and, when the age-class column
\* exists, without the rows whose label is missing, blank or not a 5-year
\* bucket; every other row with a usable year and population contributes.
C2_OutOfScopeRowsNeverContribute ==
    /\ last.op = "for_year" =>
           last.result = population_union_for_year(ScopedRows(df, columns), columns,
                                                   last.year, last.method)
    /\ last.op = "by_year" =>
           last.frame = population_union_by_year(ScopedRows(df, columns), columns,
                                                 last.method)
    /\ last.op = "by_year" /\ RequiredColumns \subseteq columns =>
           \A i \in 1..Len(df) :
               InScope(df[i], columns) /\ df[i].annee # NA /\ df[i].npop # NA
                   => /\ \E j \in 1..Len(last.frame) :
                             last.frame[j].annee = df[i].annee
                      /\ population_union_by_year(<<df[i]>>, columns, last.method)
                             = <<[annee |-> df[i].annee,
                                  npop_union |-> 2 * df[i].npop]>>

C2_Witness ==
    /\ last.op = "by_year"
    /\ columns = UnionColumns
    /\ \E i, j, k \in 1..Len(df) :
          /\ df[i].dept = D999 /\ df[i].annee = 2023
          /\ df[j].cla_age_5 = ATous /\ df[j].annee = 2023
          /\ InScope(df[k], columns) /\ df[k].annee = 2023 /\ df[k].npop = 500
    /\ last.frame = <<[annee |-> 2023, npop_union |-> 2 * 500]>>

\* numbers of the rows of t that count for the union of some year
UsableRowsAnyYear(t, cols) ==
    {i \in 1..Len(t) : InScope(t[i], cols) /\ t[i].annee # NA /\ t[i].npop # NA}

\* C3: the union functions return "not available" (NaN, an empty series)
\* whenever a required column is absent or no row with a usable population
\* remains after the scope filter and the year restriction.
C3_NotAvailableWhenNothingRemains ==
    /\ last.op = "for_year"
       /\ (~(RequiredColumns \subseteq columns)
              \/ UsableRows(df, columns, last.year) = {})
           => last.result = NaN
    /\ last.op = "by_year"
       /\ (~(RequiredColumns \subseteq columns)
              \/ UsableRowsAnyYear(df, columns) = {})
           => last.frame = <<>>

\* rows of a by-year frame for year y
EntriesOf(frame, y) == {j \in 1..Len(frame) : frame[j].annee = y}

\* C4: population_union_by_year agrees with population_union_for_year: for
\* every reducer the by-year result has exactly one entry for each year for
\* which the single-year function returns a number, the entry equals that
\* number, and the entries are sorted by ascending year.
C4_ByYearAgreesWithForYear ==
    last.op = "by_year" =>
        /\ \A y \in Years :
              LET r == population_union_for_year(df, columns, y, last.method)
              IN  /\ r # NaN <=> Cardinality(EntriesOf(last.frame, y)) = 1
                  /\ \A j \in EntriesOf(last.frame, y) :
                         last.frame[j].npop_union = r
        /\ \A j \in 1..Len(last.frame) : last.frame[j].annee \in Years
        /\ \A j \in 1..Len(last.frame) - 1 :
              last.frame[j].annee < last.frame[j + 1].annee

\* the total of year y in a by-year frame, NaN when the year has no entry
TotalOf(frame, y) ==
    IF EntriesOf(frame, y) = {} THEN NaN
    ELSE frame[CHOOSE j \in EntriesOf(frame, y) : TRUE].npop_union

\* C5: adding the rows of a new (department, age-class) slice with positive
\* population to the data of one year cannot decrease that year's union
\* total and leaves the total of every other year unchanged, for every
\* reducer.
C5_MonotoneUnderSliceAddition ==
    last.op = "add_slice" =>
        \A m \in Methods :
            LET before == population_union_by_year(last.before, columns, m)
                after == population_union_by_year(df, columns, m)
            IN  /\ \A y \in Years \ {last.year} :
                       TotalOf(after, y) = TotalOf(before, y)
                /\ TotalOf(before, last.year) # NaN =>
                       /\ TotalOf(after, last.year) # NaN
                       /\ TotalOf(after, last.year) >= TotalOf(before, last.year)

C5_Witness ==
    /\ last.op = "add_slice"
    /\ Len(df) = Len(last.before) + 2
    /\ LET before == population_union_by_year(last.before, columns, "median")
           after == population_union_by_year(df, columns, "median")
       IN  /\ TotalOf(before, last.year) # NaN
           /\ TotalOf(after, last.year) > TotalOf(before, last.year)

\* the in-scope slices of a year that hold more than one distinct non-null
\* population value
MultiSlices(t, cols, year) ==
    LET I == UsableRows(t, cols, year)
        keys == {NormKey(t[i], cols) : i \in I}
    IN  {k \in keys :
            Cardinality({t[i].npop : i \in {j \in I : NormKey(t[j], cols) = k}}) > 1}

\* C22: population_union_audit(df, year) reports as multi_values exactly the
\* number of in-scope (department, age-class) slices of the year that hold
\* more than one distinct non-null population value, with
\* 0 <= multi_values <= slices; it returns {slices: 0, multi_values: 0}
\* when a required column is missing or no row remains; and it is
\* read-only: the table is the same after the call, and so is the value
\* population_union_for_year returns on it.
C22_AuditCountsDisagreeingSlices ==
    last.op = "audit" =>
        /\ RequiredColumns \subseteq columns =>
               last.audit.multi_values
                   = Cardinality(MultiSlices(last.before, columns, last.year))
        /\ 0 <= last.audit.multi_values
        /\ last.audit.multi_values <= last.audit.slices
        /\ (~(RequiredColumns \subseteq columns)
               \/ UsableRows(last.before, columns, last.year) = {})
              => last.audit = NoAudit
        /\ df = last.before
        /\ \A y \in Years, m \in Methods :
               population_union_for_year(df, columns, y, m)
                   = population_union_for_year(last.before, columns, y, m)

C22_Witness ==
    /\ last.op = "audit"
    /\ last.categorical
    /\ last.audit.multi_values = 1
    /\ last.audit.slices = 2
    /\ Cardinality({NormKey(df[i], columns) :
                       i \in UsableRows(df, columns, last.year)}) = 1
    /\ \E i \in 1..Len(df) : ~InScope(df[i], columns)

\* the union of year y under each reducer
Unions(t, cols, y) == [m \in Methods |-> population_union_for_year(t, cols, y, m)]

\* C29: for every table and year, union(min) <= union(median) <= union(max)
\* and union(min) <= union(first) <= union(max); and whenever
\* population_union_audit reports multi_values = 0 for the year,
\* population_union_for_year returns the same total for all four reducers.
\* The "not available" result is one outcome, returned for all four
\* reducers or for none, and the orderings are between available totals.
C29_ReducersOrdered ==
    /\ last.op = "for_year" =>
           LET u == Unions(df, columns, last.year)
           IN  /\ last.result = u[last.method]
               /\ \A m \in Methods : u[m] = NaN <=> last.result = NaN
               /\ last.result # NaN =>
                      /\ u["min"] <= u["median"] /\ u["median"] <= u["max"]
                      /\ u["min"] <= u["first"] /\ u["first"] <= u["max"]
    /\ (last.op = "audit" /\ last.audit.multi_values = 0) =>
           LET u == Unions(df, columns, last.year)
           IN  \A m \in Methods : u[m] = u["median"]

C29_Witness ==
    /\ last.op = "for_year"
    /\ last.method = "median"
    /\ LET u == Unions(df, columns, last.year)
       IN  /\ u["min"] # NaN
           /\ u["min"] < last.result /\ last.result < u["max"]
           /\ u["first"] = u["max"]
    /\ population_union_audit(df, columns, last.year, TRUE).multi_values = 1

-----------------------------------------------------------------------------
(* Row order *)

\* rows of two years with a slice of two population values, a second
\* department and a null population
OrderRows ==
    { Row(2023, D001, A0_4, 1000),
      Row(2023, D001, A0_4, 999),
      Row(2023, D999, A0_4, 5000),
      Row(2022, D1, A0_4, 700),
      Row(2023, D002, A0_4, NA) }

InitOrder ==
    /\ NoIngest
    /\ NoApp
    /\ columns \in UnionColumnSets
    /\ \E t \in SeqsUpTo(OrderRows, MaxRows) :
           df = Project(t, columns)
    /\ dtypes = NumericDtypes
    /\ last = NoCall
    /\ tables = NoTables
    /\ tables_prev = NoTables
    /\ calls = 0
    /\ csv = NoFile
    /\ parquet = NoFile
    /\ clock = 0
    /\ ret = NoRet

NextOrder ==
    \/ \E y \in Years, m \in Methods : UnionForYear(y, m)
    \/ \E m \in Methods : UnionByYear(m)

SpecOrder == InitOrder /\ [][NextOrder]_vars

\* the reducers that do not look at the order of a slice's rows
OrderFree == {"median", "min", "max"}

Perms(n) == { p \in [1..n -> 1..n] : \A i, j \in 1..n : p[i] = p[j] => i = j }

Permute(t, p) == [i \in 1..Len(t) |-> t[p[i]]]

\* C30: for every table, every permutation of its rows and every year,
\* population_union_for_year and population_union_by_year with reducer
\* median, min or max return the same totals on the permuted table as on
\* the original.
C30_RowOrderFree ==
    /\ (last.op = "for_year" /\ last.method \in OrderFree) =>
           \A p \in Perms(Len(df)) :
               population_union_for_year(Permute(df, p), columns, last.year,
                                         last.method) = last.result
    /\ (last.op = "by_year" /\ last.method \in OrderFree) =>
           \A p \in Perms(Len(df)) :
               population_union_by_year(Permute(df, p), columns, last.method)
                   = last.frame

\* a by-year call on three rows of two years whose totals under the reducer
\* first do change with the order of the rows
C30_Witness ==
    /\ last.op = "by_year"
    /\ last.method = "median"
    /\ Len(df) = 3
    /\ Len(last.frame) = 2
    /\ \E p \in Perms(Len(df)) :
           population_union_by_year(Permute(df, p), columns, "first")
               # population_union_by_year(df, columns, "first")

-----------------------------------------------------------------------------
(* Table builder *)

\* A mean is kept exact, as the pair of its numerator and denominator; a
\* zero denominator is the NaN that 0/0 gives (populations and prevalences
\* are non-negative).
Ratio(n, d) == [num |-> n, den |-> d]
IsNaN(q) == q.den = 0

\* q comes no later than r in a descending sort (NaN last)
NotBelow(q, r) ==
    \/ IsNaN(r)
    \/ ~IsNaN(q) /\ q.num * r.den >= r.num * q.den

\* sort_values(field, ascending=False); rows that tie keep their order
RECURSIVE InsertDesc(_, _, _)
InsertDesc(x, s, field) ==
    IF s = <<>> THEN <<x>>
    ELSE IF NotBelow(x[field], Head(s)[field]) THEN <<x>> \o s
    ELSE <<Head(s)>> \o InsertDesc(x, Tail(s), field)

RECURSIVE SortDesc(_, _)
SortDesc(s, field) ==
    IF s = <<>> THEN <<>> ELSE InsertDesc(Head(s), SortDesc(Tail(s), field), field)

\* dtype of a measure column of a typed table (coerce_cleaned: to_numeric
\* then downcast; clean_raw: map(_to_float) leaves an object column when a
\* value is pd.NA, which the downcast then skips)
TypedDtype(variant, t, cols, c) ==
    LET hasNull == \E i \in 1..Len(t) : t[i][c] = NA
    IN  IF c \notin cols THEN "absent"
        ELSE IF variant = "raw" THEN (IF hasNull THEN "object" ELSE "float32")
        ELSE (IF hasNull THEN "float32" ELSE "int32")

\* dtype after pd.to_numeric(errors="coerce")
to_numeric(dt) == IF dt = "object" THEN "float64" ELSE dt

\* dtypes of the measure columns once make_tables has coerced them in place
CoercedDtypes(dt, cols) ==
    [c \in DOMAIN dt |-> IF c \in cols THEN to_numeric(dt[c]) ELSE dt[c]]

\* the columns of a list that the table has, in list order
Present(list, cols) == LET In(c) == c \in cols IN SelectSeq(list, In)

\* guards of the optional sub-tables
FineGuard(cols) == Present(DimColumns, cols) # <<>> /\ Present(MeasureColumns, cols) # <<>>
TimeseriesGuard(cols) == {"annee", "prev"} \subseteq cols
ByRegionGuard(cols) == {"region", "prev"} \subseteq cols
WeightedGuardMut(cols) == {"region", "prev"} \subseteq cols
WeightedGuard(cols) == {"region", "prev", "npop"} \subseteq cols
BySexeGuard(cols) == {"sexe", "prev"} \subseteq cols

\* columns each sub-table reads (a read of an absent column raises KeyError)
FineUsesMut(cols) ==
    SeqToSet(Present(DimColumns, cols) \o Present(MeasureColumns, cols)) \ {"cla_age_5"}
FineUses(cols) == SeqToSet(Present(DimColumns, cols) \o Present(MeasureColumns, cols))
TimeseriesUses == {"annee", "prev"}
ByRegionUses == {"region", "prev"}
WeightedUses == {"region", "prev", "npop"}
BySexeUses == {"sexe", "prev"}

\* dtypes the narrow table copies
FineDtypesMut(dt, cols) == dt
FineDtypes(dt, cols) == CoercedDtypes(dt, cols)

\* 0) narrow table: df[fine_dims + keep_cols].copy()
Fine(t, cols, dt) ==
    [cols_list |-> Present(DimColumns, cols) \o Present(MeasureColumns, cols),
     rows |-> Project(t, FineUses(cols)),
     dtypes |-> FineDtypes(dt, cols)]

\* the region categories of a typed table, in sorted order
RegionOrder == <<"11", "24">>
RegionCategories(t) ==
    LET Used(r) == \E i \in 1..Len(t) : t[i].region = r
    IN  SelectSeq(RegionOrder, Used)

\* the years of a table, sorted
RECURSIVE Distinct(_, _)
Distinct(v, seen) ==
    IF v = <<>> THEN <<>>
    ELSE IF Head(v) \in seen THEN Distinct(Tail(v), seen)
    ELSE <<Head(v)>> \o Distinct(Tail(v), seen \cup {Head(v)})

Column(t, c) == [i \in 1..Len(t) |-> t[i][c]]

NonNull(v) == LET Has(x) == x # NA IN SelectSeq(v, Has)

\* 1) mean prevalence per year, ascending by year
Timeseries(t) ==
    LET Ok(r) == r.annee # NA /\ r.prev # NA
        tmp == SelectSeq(t, Ok)
        years == SortInts(Distinct(Column(tmp, "annee"), {}))
        Group(y) == LET Is(r) == r.annee = y IN SelectSeq(tmp, Is)
    IN  [i \in 1..Len(years) |->
            [annee |-> years[i],
             prev_moy |-> Ratio(SumSeq(Column(Group(years[i]), "prev")),
                                Len(Group(years[i])))]]

\* 2) unweighted mean prevalence per region, descending
ByRegion(t) ==
    LET Ok(r) == r.region # NoRegion /\ r.prev # NA
        tmp == SelectSeq(t, Ok)
        cats == RegionCategories(t)
        Group(g) == LET Is(r) == r.region = g IN SelectSeq(tmp, Is)
    IN  SortDesc([i \in 1..Len(cats) |->
                    [region |-> cats[i],
                     prev_moy |-> Ratio(SumSeq(Column(Group(cats[i]), "prev")),
                                        Len(Group(cats[i])))]],
                 "prev_moy")

\* weighted mean of one region group: sum(prev * npop) / sum(npop)
RECURSIVE SumWp(_)
SumWp(g) == IF g = <<>> THEN 0 ELSE Head(g).prev * Head(g).npop + SumWp(Tail(g))

prev_pondMut(g) == Ratio(SumSeq(Column(g, "prev")), Len(g))
prev_pond(g) == Ratio(SumWp(g), SumSeq(Column(g, "npop")))

\* 2b) population-weighted mean prevalence per region, descending
ByRegionWeighted(t) ==
    LET Ok(r) == r.region # NoRegion /\ r.prev # NA /\ r.npop # NA
        tmp == SelectSeq(t, Ok)
        cats == RegionCategories(t)
        Group(g) == LET Is(r) == r.region = g IN SelectSeq(tmp, Is)
    IN  SortDesc([i \in 1..Len(cats) |->
                    [region |-> cats[i],
                     prev_pond |-> prev_pond(Group(cats[i])),
                     w |-> SumSeq(Column(Group(cats[i]), "npop"))]],
                 "prev_pond")

\* 3) describe() of prevalence per sex: count, mean, min, median, max
\* (the standard deviation and the outer quartiles are left out)
BySexeDesc(t) ==
    LET Ok(r) == r.sexe # NA /\ r.prev # NA
        tmp == SelectSeq(t, Ok)
        sexes == SortInts(Distinct(Column(tmp, "sexe"), {}))
        Group(x) == LET Is(r) == r.sexe = x IN Column(SelectSeq(tmp, Is), "prev")
    IN  [i \in 1..Len(sexes) |->
            [sexe |-> sexes[i],
             count |-> Len(Group(sexes[i])),
             mean |-> Ratio(SumSeq(Group(sexes[i])), Len(Group(sexes[i]))),
             min |-> min(Group(sexes[i])),
             median |-> median(Group(sexes[i])),
             max |-> max(Group(sexes[i]))]]

\* 4) data-quality summary
Dq(t, cols) ==
    LET regions == {t[i].region : i \in 1..Len(t)} \ {NoRegion}
        depts == {t[i].dept : i \in 1..Len(t)} \ {NullStr}
        pop_union_2023 == population_union_for_year(t, cols, 2023, "median")
    IN  [rows |-> Len(t),
         cols |-> Cardinality(cols),
         regions |-> IF "region" \in cols THEN Cardinality(regions) ELSE 0,
         departments |-> IF "dept" \in cols THEN Cardinality(depts) ELSE 0,
         population_union_npop |-> pop_union_2023,
         population_union_npop_2023 |-> pop_union_2023,
         annees |-> IF "annee" \in cols
                    THEN SortInts(Distinct(NonNull(Column(t, "annee")), {}))
                    ELSE <<>>,
         has_weight |-> "npop" \in cols,
         has_sex |-> "sexe" \in cols,
         cols_list |-> Present(DimColumns \o MeasureColumns, cols)]

\* the mapping make_tables returns for table t with columns cols; `raised`
\* tells that a sub-table read a column the table does not have
make_tables(t, cols, dt) ==
    [keys |-> {"dq"}
            \cup (IF FineGuard(cols) THEN {"fine"} ELSE {})
            \cup (IF TimeseriesGuard(cols) THEN {"timeseries"} ELSE {})
            \cup (IF ByRegionGuard(cols) THEN {"by_region"} ELSE {})
            \cup (IF WeightedGuard(cols) THEN {"by_region_weighted"} ELSE {})
            \cup (IF BySexeGuard(cols) THEN {"by_sexe_desc"} ELSE {}),
     raised |-> \/ FineGuard(cols) /\ ~(FineUses(cols) \subseteq cols)
                \/ TimeseriesGuard(cols) /\ ~(TimeseriesUses \subseteq cols)
                \/ ByRegionGuard(cols) /\ ~(ByRegionUses \subseteq cols)
                \/ WeightedGuard(cols) /\ ~(WeightedUses \subseteq cols)
                \/ BySexeGuard(cols) /\ ~(BySexeUses \subseteq cols),
     fine |-> IF FineGuard(cols) THEN Fine(t, cols, dt) ELSE <<>>,
     timeseries |-> IF TimeseriesGuard(cols) THEN Timeseries(t) ELSE <<>>,
     by_region |-> IF ByRegionGuard(cols) THEN ByRegion(t) ELSE <<>>,
     by_region_weighted |-> IF WeightedGuard(cols) THEN ByRegionWeighted(t) ELSE <<>>,
     by_sexe_desc |-> IF BySexeGuard(cols) THEN BySexeDesc(t) ELSE <<>>,
     dq |-> Dq(t, cols)]

-----------------------------------------------------------------------------
(* Tables of the table-builder specification *)

RowT(a, reg, sx, n, pr) ==
    [annee |-> a, region |-> reg, dept |-> D001, sexe |-> sx,
     cla_age_5 |-> A0_4, ntop |-> 11, npop |-> n, prev |-> pr]

TRows ==
    { RowT(2023, "11", 1, 100, 10),
      RowT(2023, "11", 2, 300, 20),
      RowT(2022, "24", 1, 200, 30),
      RowT(2023, "24", 2, NA, 40),
      RowT(2022, NoRegion, NA, 50, NA),
      RowT(NA, "11", 1, 0, 25) }

\* two rows of one region (spec, testable properties)
ExampleRegion == << RowT(2023, "11", 1, 100, 10), RowT(2023, "11", 2, 300, 20) >>

\* a region whose only row has no prevalence, next to a region with one
ExampleGap == << RowT(2023, "11", 1, 100, 10), RowT(2023, "24", 2, 300, NA) >>

\* column sets of the longer tables; the example is tried with every set
ColumnSetsT ==
    { AllColumns, AllColumns \ {"sexe"}, AllColumns \ {"npop"},
      {"region", "prev", "npop"} }

Variants == {"cleaned", "raw"}

\* clean_raw drops the rows that are null in all the key columns present
RawKeeps(r, cols) ==
    LET key_cols == {"annee", "region", "dept", "prev"} \cap cols
        IsNull(c) == r[c] = NullRow[c]
    IN  key_cols # {} => \E c \in key_cols : ~IsNull(c)

InitTables ==
    /\ NoIngest
    /\ NoApp
    /\ \E t \in SeqsUpTo(TRows, MaxRowsT) \cup {ExampleGap}, v \in Variants :
          /\ \/ columns \in ColumnSetsT
             \/ columns \in SUBSET AllColumns /\ t = ExampleRegion
          /\ df = Project(t, columns)
          /\ v = "raw" => \A i \in 1..Len(df) : RawKeeps(df[i], columns)
          /\ dtypes = [c \in SeqToSet(MeasureColumns) |->
                          TypedDtype(v, Project(t, columns), columns, c)]
    /\ last = NoCall
    /\ tables = NoTables
    /\ tables_prev = NoTables
    /\ calls = 0
    /\ csv = NoFile
    /\ parquet = NoFile
    /\ clock = 0
    /\ ret = NoRet

\* tables = make_tables(df): the measure columns of df itself are coerced
\* (df[c] = pd.to_numeric(df[c])), then the sub-tables are built
MakeTables ==
    /\ UNCHANGED ingestVars
    /\ UNCHANGED appVars
    /\ calls < MaxCalls
    /\ dtypes' = CoercedDtypes(dtypes, columns)
    /\ df' = df
    /\ tables' = make_tables(df', columns, dtypes)
    /\ tables_prev' = tables
    /\ calls' = calls + 1
    /\ last' = [NoCall EXCEPT !.op = "make_tables", !.before = df,
                   !.before_dtypes = dtypes]
    /\ UNCHANGED columns
    /\ UNCHANGED cacheVars

NextTables == MakeTables

SpecTables == InitTables /\ [][NextTables]_vars

-----------------------------------------------------------------------------
(* Table builder: claims *)

\* numbers of the rows of region g with region, prevalence and population
WeightedRows(t, g) ==
    {i \in 1..Len(t) : t[i].region = g /\ t[i].prev # NA /\ t[i].npop # NA}

RowsOfRegion(table, g) == {j \in 1..Len(table) : table[j].region = g}

SameRatio(q, n, d) == q.den = d /\ q.num = n

HasWeightedExample ==
    /\ df = Project(ExampleRegion, columns)
    /\ {"region", "prev", "npop"} \subseteq columns

\* C6: the per-region weighted table holds, for each region, sum(prevalence
\* * population) / sum(population) over exactly the rows of the region
\* whose region, prevalence and population are non-null, in descending
\* order of the weighted mean; rows (10, 100) and (20, 300) of one region
\* give 17.5, and 15 unweighted.
C6_WeightedRegionMean ==
    calls >= 1 /\ "by_region_weighted" \in tables.keys =>
        LET w == tables.by_region_weighted
        IN  /\ \A g \in SeqToSet(RegionOrder) :
                  /\ WeightedRows(df, g) # {} => Cardinality(RowsOfRegion(w, g)) = 1
                  /\ \A j \in RowsOfRegion(w, g) :
                        SameRatio(w[j].prev_pond,
                                  SumSet(WeightedRows(df, g),
                                         [i \in 1..Len(df) |-> df[i].prev * df[i].npop]),
                                  SumSet(WeightedRows(df, g),
                                         [i \in 1..Len(df) |-> df[i].npop]))
            /\ \A j \in 1..Len(w) : w[j].region \in SeqToSet(RegionOrder)
            /\ \A j \in 1..Len(w) - 1 : NotBelow(w[j].prev_pond, w[j + 1].prev_pond)
            /\ HasWeightedExample =>
                  /\ Len(w) = 1
                  /\ 2 * w[1].prev_pond.num = 35 * w[1].prev_pond.den
                  /\ tables.by_region[1].prev_moy.num
                         = 15 * tables.by_region[1].prev_moy.den

C6_Witness ==
    /\ calls >= 1
    /\ HasWeightedExample
    /\ tables.by_region_weighted[1].prev_pond = Ratio(7000, 400)
    /\ tables.by_region[1].prev_moy = Ratio(30, 2)

\* C7: make_tables never fails for a missing column and omits exactly the
\* sub-tables whose prerequisite columns are missing: 'fine' needs one
\* dimension and one measure column, 'timeseries' annee and prev,
\* 'by_region' region and prev, 'by_region_weighted' region, prev and npop,
\* 'by_sexe_desc' sexe and prev, and 'dq' is always there.
C7_MissingColumnsOmitSubTables ==
    calls >= 1 =>
        /\ ~tables.raised
        /\ "dq" \in tables.keys
        /\ "fine" \in tables.keys <=>
               /\ columns \cap {"annee", "region", "dept", "sexe", "cla_age_5"} # {}
               /\ columns \cap {"ntop", "npop", "prev"} # {}
        /\ "timeseries" \in tables.keys <=> "annee" \in columns /\ "prev" \in columns
        /\ "by_region" \in tables.keys <=> "region" \in columns /\ "prev" \in columns
        /\ "by_region_weighted" \in tables.keys <=>
               "region" \in columns /\ "prev" \in columns /\ "npop" \in columns
        /\ "by_sexe_desc" \in tables.keys <=> "sexe" \in columns /\ "prev" \in columns
        /\ tables.keys \subseteq {"dq", "fine", "timeseries", "by_region",
                                  "by_region_weighted", "by_sexe_desc"}

C7_Witness ==
    /\ calls >= 1
    /\ "sexe" \notin columns /\ "prev" \in columns /\ "region" \in columns
    /\ "npop" \notin columns
    /\ tables.keys = {"dq", "fine", "by_region"}

\* C8: make_tables leaves the typed table passed in unchanged: same columns,
\* same cell values and same types after the call as before it.
C8_InputTableUnchanged ==
    last.op = "make_tables" =>
        /\ df = last.before
        /\ dtypes = last.before_dtypes

\* C9: make_tables run twice in succession on the same table object yields
\* mappings with identical keys and identical contents.
C9_SecondCallSameTables ==
    calls >= 2 => tables = tables_prev

C9_Witness ==
    /\ calls >= 2
    /\ tables = tables_prev
    /\ "fine" \in tables.keys
    /\ \E c \in DOMAIN dtypes : dtypes[c] = "float64"

\* numbers of the rows of region g with region and prevalence
MeanRows(t, g) == {i \in 1..Len(t) : t[i].region = g /\ t[i].prev # NA}

\* C21: the per-region unweighted table has exactly one row for each region
\* that has at least one row with both region and prevalence non-null (and
\* no row for any other region), the value of the row is the arithmetic
\* mean of the prevalence of exactly those rows, and the rows are ordered by
\* non-increasing mean prevalence.
C21_UnweightedRegionMean ==
    calls >= 1 /\ "by_region" \in tables.keys =>
        LET b == tables.by_region
        IN  /\ \A g \in SeqToSet(RegionOrder) :
                  /\ Cardinality(RowsOfRegion(b, g))
                         = (IF MeanRows(df, g) # {} THEN 1 ELSE 0)
                  /\ \A j \in RowsOfRegion(b, g) :
                        SameRatio(b[j].prev_moy,
                                  SumSet(MeanRows(df, g),
                                         [i \in 1..Len(df) |-> df[i].prev]),
                                  Cardinality(MeanRows(df, g)))
            /\ \A j \in 1..Len(b) : b[j].region \in SeqToSet(RegionOrder)
            /\ \A j \in 1..Len(b) - 1 : NotBelow(b[j].prev_moy, b[j + 1].prev_moy)

-----------------------------------------------------------------------------
(* Ingestion cache *)

\* A file is [exists, mtime, content]; the content of the source is a
\* version number and the content of the cache artifact is the version of
\* the source it was written from.  A write stamps the file with the clock,
\* which advances on its own, so two writes can carry the same time.

File(m, c) == [exists |-> TRUE, mtime |-> m, content |-> c]

\* parquet_path.exists() and parquet mtime > csv mtime
CacheValidMut(p, c) == p.exists /\ p.mtime >= c.mtime
CacheValid(p, c) == p.exists /\ p.mtime > c.mtime

InitCache ==
    /\ NoIngest
    /\ NoApp
    /\ csv = File(0, 1)
    /\ parquet = NoFile
    /\ clock = 0
    /\ ret = NoRet
    /\ df = <<>>
    /\ columns = {}
    /\ dtypes = NoDtypes
    /\ last = NoCall
    /\ tables = NoTables
    /\ tables_prev = NoTables
    /\ calls = 0

Tick ==
    /\ UNCHANGED ingestVars
    /\ UNCHANGED appVars
    /\ clock < MaxClock
    /\ clock' = clock + 1
    /\ UNCHANGED <<csv, parquet, ret>>
    /\ UNCHANGED tableVars

\* the source file is replaced by another version
WriteSource(v) ==
    /\ UNCHANGED ingestVars
    /\ UNCHANGED appVars
    /\ v # csv.content
    /\ csv' = File(clock, v)
    /\ UNCHANGED <<parquet, clock, ret>>
    /\ UNCHANGED tableVars

DeleteSource ==
    /\ UNCHANGED ingestVars
    /\ UNCHANGED appVars
    /\ csv.exists
    /\ csv' = NoFile
    /\ UNCHANGED <<parquet, clock, ret>>
    /\ UNCHANGED tableVars

\* the cache directory is cleared
DeleteCache ==
    /\ UNCHANGED ingestVars
    /\ UNCHANGED appVars
    /\ parquet.exists
    /\ parquet' = NoFile
    /\ UNCHANGED <<csv, clock, ret>>
    /\ UNCHANGED tableVars

Outcome(op, o, t, e, w, env) ==
    [op |-> op, outcome |-> o, table |-> t, raised |-> e,
     csv_before |-> csv, parquet_before |-> parquet,
     parquet_after |-> parquet', write_ok |-> w, env |-> env, at |-> clock]

\* read_csv_flexible(path): p.open("rb") raises an OSError (FileNotFoundError,
\* PermissionError) when the file is absent or cannot be opened; otherwise
\* the table of the file's content is returned.
ReadCsvRaisesMut(src_ok) == ~csv.exists
ReadCsvRaises(src_ok) == ~(csv.exists /\ src_ok)

ReadCsvFlexible(src_ok) ==
    /\ UNCHANGED ingestVars
    /\ UNCHANGED appVars
    /\ UNCHANGED <<csv, parquet, clock>>
    /\ UNCHANGED tableVars
    /\ ret' = IF ReadCsvRaises(src_ok)
              THEN Outcome("read_csv_flexible", "error", 0, "OSError", FALSE,
                           [NoEnv EXCEPT !.src_ok = src_ok])
              ELSE Outcome("read_csv_flexible", "read", csv.content, "", FALSE,
                           [NoEnv EXCEPT !.src_ok = src_ok])

\* load_parquet_cached(csv_path, parquet_path).  dir_ok: the cache directory
\* exists or can be created; cache_ok: the artifact can be read; src_ok: the
\* source can be opened for reading; write_ok: the artifact can be written.
load_parquet_cached(dir_ok, cache_ok, src_ok, write_ok) ==
    LET env == [dir_ok |-> dir_ok, cache_ok |-> cache_ok, src_ok |-> src_ok]
        Out(o, t, e, w) == Outcome("load_parquet_cached", o, t, e, w, env)
    IN
    /\ parquet.exists => dir_ok
    /\ IF ~dir_ok
       THEN \* parquet_path.parent.mkdir raises, outside the try
            /\ UNCHANGED parquet
            /\ ret' = Out("error", 0, "OSError", FALSE)
       ELSE IF parquet.exists /\ ~csv.exists
       THEN \* csv_path.stat() raises FileNotFoundError
            /\ UNCHANGED parquet
            /\ ret' = Out("error", 0, "OSError", FALSE)
       ELSE IF CacheValid(parquet, csv)
       THEN \* pd.read_parquet, outside the try; the source is not opened
            /\ UNCHANGED parquet
            /\ ret' = IF cache_ok THEN Out("cached", parquet.content, "", FALSE)
                      ELSE Out("error", 0, "ParquetError", FALSE)
       ELSE IF ReadCsvRaises(src_ok)
       THEN /\ UNCHANGED parquet
            /\ ret' = Out("error", 0, "OSError", FALSE)
       ELSE /\ parquet' = IF write_ok THEN File(clock, csv.content) ELSE parquet
            /\ ret' = Out("fresh", csv.content, "", write_ok)

\* a call of load_parquet_cached on its own
Load(dir_ok, cache_ok, src_ok, write_ok) ==
    /\ load_parquet_cached(dir_ok, cache_ok, src_ok, write_ok)
    /\ UNCHANGED <<csv, clock>>
    /\ UNCHANGED tableVars
    /\ UNCHANGED ingestVars
    /\ UNCHANGED appVars

NextCache ==
    \/ Tick
    \/ \E v \in 1..MaxVersion : WriteSource(v)
    \/ DeleteSource
    \/ DeleteCache
    \/ \E src_ok \in BOOLEAN : ReadCsvFlexible(src_ok)
    \/ \E dir_ok, cache_ok, src_ok, write_ok \in BOOLEAN :
          Load(dir_ok, cache_ok, src_ok, write_ok)

SpecCache == InitCache /\ [][NextCache]_vars

WasValid == ret.parquet_before.exists /\ ret.parquet_before.mtime > ret.csv_before.mtime

SourceReadable == ret.csv_before.exists /\ ret.env.src_ok

\* C11: a cache failure never aborts ingestion: whenever the source file is
\* readable, load_parquet_cached raises no error and returns the table read
\* from the source, even if the cache directory cannot be created, the
\* artifact cannot be written or the cache layer otherwise fails.
C11_CacheFailureNeverAborts ==
    (ret.op = "load_parquet_cached" /\ SourceReadable) =>
        /\ ret.outcome # "error"
        /\ ret.table = ret.csv_before.content

\* Errors of the I/O class: an OSError of the file system, and the error of
\* reading an artifact that cannot be read.
IOClass == {"OSError", "ParquetError"}

\* C12 as stated: in every cache state, when the source file is absent or
\* cannot be read, read_csv_flexible and load_parquet_cached fail with an
\* I/O-class error and return no table.
C12_SourceFailureAlwaysFatal ==
    (ret.op # "none" /\ ~SourceReadable) =>
        /\ ret.outcome = "error"
        /\ ret.raised \in IOClass
        /\ ret.table = 0

\* C12, amended: an absent source is fatal in every cache state, and a source
\* that exists but cannot be opened is fatal whenever the cache artifact is
\* not valid (absent or not strictly newer than the source): the call fails
\* with an I/O-class error and returns no table.  When the source exists,
\* cannot be opened and the artifact is strictly newer, load_parquet_cached
\* does not open the source: it returns the cached table, or propagates the
\* error of reading the artifact.
C12_SourceFailureFatalUnlessCacheValid ==
    (ret.op # "none" /\ ~SourceReadable) =>
        IF ret.op = "load_parquet_cached" /\ ret.csv_before.exists /\ WasValid
        THEN \/ /\ ret.env.cache_ok
                /\ ret.outcome = "cached"
                /\ ret.table = ret.parquet_before.content
             \/ /\ ~ret.env.cache_ok
                /\ ret.outcome = "error"
                /\ ret.raised = "ParquetError"
        ELSE /\ ret.outcome = "error"
             /\ ret.raised = "OSError"
             /\ ret.table = 0

C12_Witness ==
    /\ ret.op = "load_parquet_cached"
    /\ ret.csv_before.exists
    /\ ~ret.env.src_ok
    /\ WasValid
    /\ ret.outcome = "cached"
    /\ ret.table = ret.csv_before.content

\* C27: the cache never serves stale data under sequential use: whatever
\* source-file modifications and completed load_parquet_cached calls came
\* before, with every file write stamped by the non-decreasing clock (two
\* writes may share a timestamp), a load that returns a table returns the
\* one parsed from the source content current at the time of the load.
C27_NeverStaleUnderSequentialUse ==
    (ret.op = "load_parquet_cached" /\ ret.outcome \in {"cached", "fresh"}) =>
        /\ ret.csv_before.exists
        /\ ret.table = ret.csv_before.content

\* a reused artifact written in the same clock tick as an earlier version of
\* the source that has since been replaced
C27_Witness ==
    /\ ret.op = "load_parquet_cached"
    /\ ret.outcome = "cached"
    /\ ret.csv_before.content = 2
    /\ ret.csv_before.mtime = 1
    /\ ret.parquet_before.mtime = 2
    /\ ret.table = 2

-----------------------------------------------------------------------------
(* Application: load_and_prepare under st.cache_data *)

\* st.cache_data keeps, for the life of the process, the value the function
\* returned for a tuple of arguments; the application calls load_and_prepare
\* with one tuple (the data path and the already_clean flag).  The typed
\* table and the derived tables are functions of the table read, so they
\* are identified by the version of the content they were built from.
MemoHit(m) == m.present

Prepared(o, v, e) ==
    [outcome |-> o, version |-> v, raised |-> e,
     csv_before |-> csv, parquet_before |-> parquet]

\* df, tables, meta = load_and_prepare(str(DATA_PATH), DATA_IS_ALREADY_CLEAN)
LoadAndPrepare(dir_ok, cache_ok, src_ok, write_ok) ==
    /\ UNCHANGED <<csv, clock>>
    /\ UNCHANGED tableVars
    /\ UNCHANGED ingestVars
    /\ IF MemoHit(memo)
       THEN \* the function body does not run
            /\ prepared' = Prepared("hit", memo.version, "")
            /\ UNCHANGED <<memo, parquet, ret>>
       ELSE /\ load_parquet_cached(dir_ok, cache_ok, src_ok, write_ok)
            /\ IF ret'.outcome = "error"
               THEN /\ prepared' = Prepared("error", 0, ret'.raised)
                    /\ UNCHANGED memo
               ELSE /\ prepared' = Prepared("miss", ret'.table, "")
                    /\ memo' = [present |-> TRUE, version |-> ret'.table]

\* the process is restarted: the memoized values are gone
Restart ==
    /\ memo.present
    /\ memo' = NoMemo
    /\ UNCHANGED <<prepared, csv, parquet, clock, ret>>
    /\ UNCHANGED tableVars
    /\ UNCHANGED ingestVars

NextApp ==
    \/ Tick
    \/ \E v \in 1..MaxVersion : WriteSource(v)
    \/ Restart
    \/ \E dir_ok, cache_ok, src_ok, write_ok \in BOOLEAN :
          LoadAndPrepare(dir_ok, cache_ok, src_ok, write_ok)

SpecApp == InitCache /\ [][NextApp]_vars

\* the source was modified after the cache artifact was written
SourceNewerThanCache ==
    /\ prepared.csv_before.exists
    /\ prepared.parquet_before.exists
    /\ prepared.csv_before.mtime > prepared.parquet_before.mtime

\* C23: the typed table follows the source file version: once the source
\* file has been modified (its modification time is past the cache
\* artifact's), a call of load_and_prepare with the same arguments in the
\* same process returns a typed table and derived tables built from the new
\* content, never the ones built from the previous version.
C23_TypedTableFollowsSourceVersion ==
    (prepared.outcome \in {"hit", "miss"} /\ SourceNewerThanCache) =>
        prepared.version = prepared.csv_before.content

-----------------------------------------------------------------------------
(* Overview page *)

\* column sets of the tables of the overview specification: those of the
\* population union, and two with a narrow table but without a column the
\* union requires
OverviewColumnSets ==
    UnionColumnSets \cup { {"annee", "cla_age_5", "npop"}, {"dept", "npop", "prev"} }

InitOverview ==
    /\ NoIngest
    /\ NoApp
    /\ columns \in OverviewColumnSets
    /\ \E t \in UnionTables \cup {ExampleSlice} :
           df = Project(t, columns)
    /\ dtypes = NumericDtypes
    /\ last = NoCall
    /\ tables = NoTables
    /\ tables_prev = NoTables
    /\ calls = 0
    /\ csv = NoFile
    /\ parquet = NoFile
    /\ clock = 0
    /\ ret = NoRet

\* isinstance(fine, pd.DataFrame), fine = tables.get("fine")
HasFine(tbl) == "fine" \in tbl.keys

\* int(pop_2023): int() of a NaN raises ValueError
IntRaises(x) == x = NaN

\* the population KPI of overview.render: the formatted number, the
\* placeholder, or the error that ends the rendering of the page
PopulationKpi(tbl) ==
    IF ~HasFine(tbl) THEN [kpi |-> "placeholder", pop_2023 |-> NaN]
    ELSE LET pop_2023 == population_union_for_year(
                             tbl.fine.rows, SeqToSet(tbl.fine.cols_list),
                             2023, "median")
         IN  IF IntRaises(pop_2023)
             THEN [kpi |-> "ValueError", pop_2023 |-> pop_2023]
             ELSE [kpi |-> "value", pop_2023 |-> pop_2023]

\* the population trend of overview.render: the by-year frame of the chart
\* (empty: an informational notice is shown instead)
PopulationTrend(tbl) ==
    IF ~HasFine(tbl) THEN <<>>
    ELSE population_union_by_year(tbl.fine.rows, SeqToSet(tbl.fine.cols_list),
                                  "median")

\* overview.render(tables_all), after load_and_prepare has built the tables
OverviewRender ==
    /\ calls >= 1
    /\ LET k == PopulationKpi(tables)
       IN  last' = [NoCall EXCEPT !.op = "overview.render", !.year = 2023,
                       !.method = "median", !.before = df,
                       !.kpi = k.kpi, !.result = k.pop_2023,
                       !.frame = IF k.kpi = "ValueError" THEN <<>>
                                 ELSE PopulationTrend(tables)]
    /\ UNCHANGED <<df, columns, dtypes, tables, tables_prev, calls>>
    /\ UNCHANGED cacheVars
    /\ UNCHANGED ingestVars
    /\ UNCHANGED appVars

NextOverview ==
    \/ MakeTables
    \/ OverviewRender

SpecOverview == InitOverview /\ [][NextOverview]_vars

\* C24: schema absence or missing data never halts the overview page:
\* whenever the narrow table exists but population_union_for_year returns
\* the "not available" value for 2023 (no in-scope 2023 row, or a year,
\* department or population column is missing), overview.render shows a
\* placeholder or a notice for the population KPI and goes on rendering
\* instead of failing.
C24_OverviewNeverHalts ==
    (last.op = "overview.render" /\ HasFine(tables) /\ last.result = NaN) =>
        last.kpi = "placeholder"

\* C28: the population figure of the overview page is the one of the
\* data-quality summary: whenever make_tables produces a narrow table,
\* population_union_for_year (every year and reducer) and
\* population_union_by_year computed on the narrow table equal the same
\* functions computed on the full typed table, "not available" matching
\* "not available"; so the figure render computes is the stored one.
C28_NarrowTableGivesSameUnion ==
    (calls >= 1 /\ HasFine(tables)) =>
        LET f == tables.fine.rows
            fc == SeqToSet(tables.fine.cols_list)
        IN  /\ \A y \in Years, m \in Methods :
                   population_union_for_year(f, fc, y, m)
                       = population_union_for_year(df, columns, y, m)
            /\ \A m \in Methods :
                   population_union_by_year(f, fc, m)
                       = population_union_by_year(df, columns, m)
            /\ last.op = "overview.render" =>
                   last.result = tables.dq.population_union_npop_2023

C28_Witness ==
    /\ last.op = "overview.render"
    /\ last.kpi = "value"
    /\ last.result = 2 * 500
    /\ last.result = tables.dq.population_union_npop_2023
    /\ last.frame = <<[annee |-> 2023, npop_union |-> 2 * 500]>>
    /\ "cla_age_5" \in columns
    /\ \E i \in 1..Len(df) : ~InScope(df[i], columns)

-----------------------------------------------------------------------------
(* Ingestion: separator detection *)

\* sample.count(c)
RECURSIVE Count(_, _)
Count(s, c) ==
    IF s = <<>> THEN 0 ELSE (IF Head(s) = c THEN 1 ELSE 0) + Count(Tail(s), c)

\* ";" in sample and sample.count(";") >= sample.count(",")
sniff_sepMut(sample) ==
    IF Count(sample, ";") > 0 /\ Count(sample, ";") > Count(sample, ",")
    THEN ";" ELSE ","
sniff_sep(sample) ==
    IF Count(sample, ";") > 0 /\ Count(sample, ";") >= Count(sample, ",")
    THEN ";" ELSE ","

\* fh.read(4096).decode("utf-8", errors="ignore"): the head of the file
ReadHead(t) == SubSeq(t, 1, IF Len(t) < SampleBytes THEN Len(t) ELSE SampleBytes)

TextAlphabet == {"a", ";", ","}

TextExamples ==
    { <<"a", ";", "b", ";", "c">>, <<"a", ",", "b", ",", "c">> }

InitSniff ==
    /\ text \in SeqsUpTo(TextAlphabet, MaxFileLen) \cup TextExamples
    /\ sep = "none"
    /\ raw = NoRaw
    /\ typed = NoTyped
    /\ NoApp
    /\ df = <<>>
    /\ columns = {}
    /\ dtypes = NoDtypes
    /\ last = NoCall
    /\ tables = NoTables
    /\ tables_prev = NoTables
    /\ calls = 0
    /\ csv = NoFile
    /\ parquet = NoFile
    /\ clock = 0
    /\ ret = NoRet

\* read_csv_flexible, up to the choice of the separator handed to the parser
SniffSep ==
    /\ sep = "none"
    /\ sep' = sniff_sep(ReadHead(text))
    /\ UNCHANGED <<text, raw, typed>>
    /\ UNCHANGED tableVars
    /\ UNCHANGED cacheVars
    /\ UNCHANGED appVars

NextSniff == SniffSep

SpecSniff == InitSniff /\ [][NextSniff]_vars

\* positions of the character c in the text s
Positions(s, c) == {i \in 1..Len(s) : s[i] = c}

Sample == SubSeq(text, 1, IF Len(text) < SampleBytes THEN Len(text) ELSE SampleBytes)

\* C19: the detected separator is ";" if and only if the sample (the head of
\* the file) contains at least one semicolon and at least as many semicolons
\* as commas, otherwise ","; so "a;b;c" gives ";", "a,b,c" gives ",", a tie
\* with semicolons present gives ";" and a sample with neither gives ",".
C19_SeparatorDetection ==
    sep # "none" =>
        /\ sep \in {";", ","}
        /\ sep = ";" <=>
              /\ Positions(Sample, ";") # {}
              /\ Cardinality(Positions(Sample, ";")) >=
                    Cardinality(Positions(Sample, ","))
        /\ text = <<"a", ";", "b", ";", "c">> => sep = ";"
        /\ text = <<"a", ",", "b", ",", "c">> => sep = ","
        /\ (Positions(Sample, ";") = {} /\ Positions(Sample, ",") = {}) => sep = ","

C19_Witness ==
    /\ sep = ";"
    /\ Positions(Sample, ";") # {}
    /\ Cardinality(Positions(Sample, ";")) = Cardinality(Positions(Sample, ","))
    /\ Len(text) > SampleBytes
    /\ text[Len(text)] = ","

-----------------------------------------------------------------------------
(* Type coercion: column harmonization *)

\* A header is a sequence of characters.  An accented character is one
\* element, written as its letter followed by the accent: "e'" is e acute,
\* "e." e grave, "e^" e circumflex, "a." a grave, "o^" o circumflex, "oe"
\* the ligature; their capitals are "E'", "E.", "E^", "A.", "O^", "OE".

\* str.lower(), for the characters of the header alphabet
LowerChar(c) ==
    CASE c = "A" -> "a" [] c = "E" -> "e" [] c = "O" -> "o"
      [] c = "E'" -> "e'" [] c = "E." -> "e." [] c = "E^" -> "e^"
      [] c = "A." -> "a." [] c = "O^" -> "o^" [] c = "OE" -> "oe"
      [] OTHER -> c

str_lower(s) == [i \in 1..Len(s) |-> LowerChar(s[i])]

\* str.replace(c, w): every occurrence of the character c becomes w
RECURSIVE str_replace(_, _, _)
str_replace(s, c, w) ==
    IF s = <<>> THEN <<>>
    ELSE (IF Head(s) = c THEN w ELSE <<Head(s)>>) \o str_replace(Tail(s), c, w)

ReplaceSpaces(s) == str_replace(s, " ", <<"_">>)

ReplaceAccents(s) ==
    LET s1 == str_replace(s, "e'", <<"e">>)
        s2 == str_replace(s1, "e.", <<"e">>)
        s3 == str_replace(s2, "e^", <<"e">>)
        s4 == str_replace(s3, "a.", <<"a">>)
        s5 == str_replace(s4, "o^", <<"o">>)
    IN  str_replace(s5, "oe", <<"o", "e">>)

\* the new name of one column
HarmonizeNameMut(h) == str_lower(ReplaceAccents(ReplaceSpaces(strip(h))))
HarmonizeName(h) == ReplaceAccents(ReplaceSpaces(str_lower(strip(h))))

\* harmonize_columns(df): a copy of df with every column renamed
\* the table the caller holds once harmonize_columns (or a coercion, which
\* starts with it) has returned: df = df.copy() makes the renaming go to a
\* copy
AfterHarmonizeMut(input, work) == work
AfterHarmonize(input, work) == input

harmonize_columns(t) ==
    [t EXCEPT !.header = [i \in 1..Len(t.header) |-> HarmonizeName(t.header[i])]]

HeaderAlphabet == {" ", "\t", "A", "a", "E'", "e'", "OE", "oe", "_"}

HeaderLists ==
    {<<h>> : h \in SeqsUpTo(HeaderAlphabet, MaxHeaderLen)}
      \cup UNION {[1..k -> SeqsUpTo(HeaderAlphabet, 1)] : k \in 2..MaxHeaders}

NoTableState ==
    /\ df = <<>>
    /\ columns = {}
    /\ dtypes = NoDtypes
    /\ tables = NoTables
    /\ tables_prev = NoTables

NoCacheState ==
    /\ csv = NoFile
    /\ parquet = NoFile
    /\ clock = 0
    /\ ret = NoRet

InitHarmonize ==
    /\ \E hs \in HeaderLists : raw = [header |-> hs, rows |-> <<>>]
    /\ typed = NoTyped
    /\ text = <<>>
    /\ sep = "none"
    /\ last = NoCall
    /\ calls = 0
    /\ NoTableState
    /\ NoCacheState
    /\ NoApp

\* harmonize_columns applied to the table as read, then to its own result
Harmonize ==
    LET input == IF calls = 0 THEN raw
                 ELSE [header |-> typed.columns, rows |-> typed.rows]
        output == harmonize_columns(input)
    IN  /\ calls < MaxCalls
        /\ calls' = calls + 1
        /\ typed' = [op |-> "harmonize_columns", raised |-> FALSE,
                     columns |-> output.header, rows |-> output.rows]
        /\ last' = [NoCall EXCEPT !.op = "harmonize_columns",
                                  !.before = input.header,
                                  !.frame = output.header]
        /\ raw' = IF calls = 0 THEN AfterHarmonize(raw, output) ELSE raw
        /\ UNCHANGED <<text, sep>>
        /\ UNCHANGED <<df, columns, dtypes, tables, tables_prev>>
        /\ UNCHANGED cacheVars
        /\ UNCHANGED appVars

NextHarmonize == Harmonize

SpecHarmonize == InitHarmonize /\ [][NextHarmonize]_vars

\* C20: column harmonization is idempotent: harmonizing an already
\* harmonized header set returns the same column names.
C20_HarmonizeIdempotent ==
    (last.op = "harmonize_columns" /\ calls >= 2) => last.frame = last.before

C20_Witness ==
    /\ last.op = "harmonize_columns"
    /\ calls = 2
    /\ last.frame = last.before
    /\ raw.header = << <<" ", "E'", "OE">> >>
    /\ typed.columns = << <<"e", "o", "e">> >>

-----------------------------------------------------------------------------
(* Type coercion: coerce_cleaned and clean_raw *)

\* The table as read holds text cells (dtype=str) or the null cell NullStr.
\* A coerced year or sex is an integer or NA; a coerced measure is a decimal
\* number [m, e] standing for m / 10^e with no trailing zero in m, or the
\* null measure FNull.

c_annee == <<"a", "n", "n", "e", "e">>
c_region == <<"r", "e", "g", "i", "o", "n">>
c_dept == <<"d", "e", "p", "t">>
c_sexe == <<"s", "e", "x", "e">>
c_prev == <<"p", "r", "e", "v">>
c_npop == <<"n", "p", "o", "p">>
c_ntop == <<"n", "t", "o", "p">>
c_tri == <<"t", "r", "i">>
c_cla_age_5 == <<"c", "l", "a", "_", "a", "g", "e", "_", "5">>

FNull == [m |-> 0, e |-> -1]

RECURSIVE Dec(_, _)
Dec(m, e) == IF e > 0 /\ m % 10 = 0 THEN Dec(m \div 10, e - 1) ELSE [m |-> m, e |-> e]

DigitValue(c) ==
    CASE c = "0" -> 0 [] c = "1" -> 1 [] c = "2" -> 2 [] c = "3" -> 3
      [] c = "4" -> 4 [] c = "5" -> 5 [] c = "6" -> 6 [] c = "7" -> 7
      [] c = "8" -> 8 [] c = "9" -> 9

\* int(s) of a run of digits
RECURSIVE DigitsToInt(_)
DigitsToInt(s) ==
    IF s = <<>> THEN 0
    ELSE 10 * DigitsToInt(SubSeq(s, 1, Len(s) - 1)) + DigitValue(s[Len(s)])

\* The decimal numerals both parsers read, white space around the number
\* being accepted: [sign] digits [. [digits]] or [sign] . digits; any other
\* text of the model is not a number (FNull here).
Numeral(x) ==
    LET s == strip(x)
        signed == s # <<>> /\ s[1] \in {"+", "-"}
        i0 == IF signed THEN 2 ELSE 1
        a == SkipDigits(s, i0)
        dot == a <= Len(s) /\ s[a] = "."
        b == IF dot THEN SkipDigits(s, a + 1) ELSE a
        ip == SubSeq(s, i0, a - 1)
        fp == IF dot THEN SubSeq(s, a + 1, b - 1) ELSE <<>>
        v == DigitsToInt(ip \o fp)
    IN  IF b = Len(s) + 1 /\ Len(ip) + Len(fp) >= 1
        THEN Dec(IF signed /\ s[1] = "-" THEN 0 - v ELSE v, Len(fp))
        ELSE FNull

\* float(s) of Python: a numeral, in which single underscores may stand
\* between digits ("1_000" is 1000.0); a text that is no number raises
\* ValueError (FNull here).
DigitGrouping(s) ==
    \A i \in 1..Len(s) :
        s[i] = "_" => /\ 1 < i /\ i < Len(s)
                      /\ s[i - 1] \in Digits /\ s[i + 1] \in Digits

float(x) ==
    LET s == strip(x)
    IN  IF DigitGrouping(s) THEN Numeral(str_replace(s, "_", <<>>)) ELSE FNull

\* _to_float(x)
CommaToPointMut(s) == s
CommaToPoint(s) == str_replace(s, ",", <<".">>)

_to_float(x) ==
    IF x = NullStr THEN FNull ELSE float(CommaToPoint(strip(x)))

\* pd.to_numeric(errors="coerce") of one text cell: a numeral, and NaN for
\* any other text (a decimal comma, an underscore between digits)
to_numeric_cell(x) == IF x = NullStr THEN FNull ELSE Numeral(x)

\* Series.astype("string").str.strip(): the null cell stays null
StripCell(x) == IF x = NullStr THEN NullStr ELSE strip(x)

\* Series.astype("string").str.strip().str.zfill(3)
DeptCell(x) == IF x = NullStr THEN NullStr ELSE zfill(strip(x), 3)

AllDigits(s) == \A i \in 1..Len(s) : s[i] \in Digits

\* a bare four-digit year, parsed by the format %Y
IsYear4(s) == Len(s) = 4 /\ AllDigits(s)

\* an ISO date YYYY-MM-DD, parsed by the format %Y-%m-%d
IsIsoDate(s) ==
    /\ Len(s) = 10
    /\ AllDigits(SubSeq(s, 1, 4)) /\ s[5] = "-"
    /\ AllDigits(SubSeq(s, 6, 7)) /\ s[8] = "-"
    /\ AllDigits(SubSeq(s, 9, 10))
    /\ DigitsToInt(SubSeq(s, 6, 7)) \in 1..12
    /\ DigitsToInt(SubSeq(s, 9, 10)) \in 1..28

DateFormat(s) ==
    IF s = NullStr THEN "none"
    ELSE IF IsYear4(s) THEN "%Y"
    ELSE IF IsIsoDate(s) THEN "%Y-%m-%d"
    ELSE "none"

\* whole years inside the range of a nanosecond Timestamp
\* (1677-09-21 .. 2262-04-11); a date outside is NaT under errors="coerce"
InTimestampRange(y) == y \in 1678..2261

\* pd.to_datetime(x, errors="coerce").year of one cell parsed on its own.
\* The pandas version is not pinned by the repository: pandas 1 and 2 give
\* nanosecond timestamps, pandas 3 a coarser unit with no such range.
YearOfCell(x, pandas) ==
    IF DateFormat(x) = "none" THEN NA
    ELSE LET y == DigitsToInt(SubSeq(x, 1, 4))
         IN  IF pandas = 3 \/ InTimestampRange(y) THEN y ELSE NA

\* pd.to_datetime(col, errors="coerce").dt.year.astype("Int64").  pandas 1
\* parses every cell on its own; pandas 2 and 3 infer one format from the
\* first non-null cell and a cell of another format becomes NaT.
FirstNonNull(col) ==
    LET I == {i \in 1..Len(col) : col[i] # NullStr}
    IN  IF I = {} THEN NullStr ELSE col[CHOOSE i \in I : \A j \in I : i <= j]

YearColumn(col, pandas) ==
    LET fmt == DateFormat(FirstNonNull(col))
    IN  [i \in 1..Len(col) |->
            IF pandas >= 2 /\ fmt # "none" /\ DateFormat(col[i]) # fmt
            THEN NA ELSE YearOfCell(col[i], pandas)]

\* pd.to_numeric(col, errors="coerce").astype("Int64"): the cast raises
\* TypeError when a number of the column is not integral
SexeRaises(col) ==
    \E i \in 1..Len(col) :
        to_numeric_cell(col[i]) # FNull /\ to_numeric_cell(col[i]).e > 0

SexeCell(x) == IF to_numeric_cell(x) = FNull THEN NA ELSE to_numeric_cell(x).m

\* a table in coercion: header, index labels (kept by row filters), rows
HasCol(t, c) == \E i \in 1..Len(t.header) : t.header[i] = c
ColIndex(t, c) == CHOOSE i \in 1..Len(t.header) : t.header[i] = c
Col(t, c) == [i \in 1..Len(t.rows) |-> t.rows[i][ColIndex(t, c)]]
\* the null value of a coerced column
NullOf(c) ==
    IF c \in {c_annee, c_sexe} THEN NA
    ELSE IF c \in {c_ntop, c_npop, c_prev, c_tri} THEN FNull
    ELSE NullStr

\* df[mask]: the rows at the kept positions, with their index labels
KeepRows(t, kept) ==
    LET pos == SelectSeq([i \in 1..Len(t.rows) |-> i], LAMBDA i : i \in kept)
    IN  [t EXCEPT !.rows = [k \in 1..Len(pos) |-> t.rows[pos[k]]],
                  !.index = [k \in 1..Len(pos) |-> t.index[pos[k]]]]

\* the text columns and the measure columns the casts loop over (of the
\* ten text columns of the source, those a table of the model can have)
StringColumns == <<c_region, c_dept, c_cla_age_5>>
NumericColumns == <<c_ntop, c_npop, c_prev, c_tri>>

\* the cast of one cell of column c, for every column but the year, whose
\* cast depends on the whole column
CoerceCell(c, x, variant) ==
    IF c = c_dept THEN DeptCell(StripCell(x))
    ELSE IF c \in SeqToSet(StringColumns) THEN StripCell(x)
    ELSE IF c = c_sexe THEN SexeCell(x)
    ELSE IF c \in SeqToSet(NumericColumns)
         THEN (IF variant = "raw" THEN _to_float(x) ELSE to_numeric_cell(x))
    ELSE x

\* the casts of coerce_cleaned and clean_raw, column by column: harmonize,
\* year, text columns, department, sex, measures
CoerceTable(t, pandas, variant) ==
    LET h == harmonize_columns(t).header
        n == Len(t.rows)
        years == IF \E k \in 1..Len(h) : h[k] = c_annee
                 THEN YearColumn(Col([header |-> h, rows |-> t.rows], c_annee), pandas)
                 ELSE <<>>
    IN  [header |-> h,
         index |-> [i \in 1..n |-> i],
         rows |-> [i \in 1..n |->
                     [k \in 1..Len(h) |->
                         IF h[k] = c_annee THEN years[i]
                         ELSE CoerceCell(h[k], t.rows[i][k], variant)]]]

\* the sex cast raises on table t, and with it the whole coercion
CoerceRaises(t) ==
    LET t0 == harmonize_columns(t)
    IN  HasCol(t0, c_sexe) /\ SexeRaises(Col([t0 EXCEPT !.rows = t.rows], c_sexe))

coerce_cleaned(t, pandas) == CoerceTable(t, pandas, "cleaned")

\* df["annee"].between(2000, 2100) | df["annee"].isna()
YearKeepMut(y) == y = NA \/ (y > 2000 /\ y < 2100)
YearKeep(y) == y = NA \/ (y >= 2000 /\ y <= 2100)

key_cols(t) == SelectSeq(<<c_annee, c_region, c_dept, c_prev>>, LAMBDA c : HasCol(t, c))

\* dropna(subset=key_cols, how="all") keeps a row with a non-null key cell
HasKeyMut(t, i) ==
    \A k \in 1..Len(key_cols(t)) : Col(t, key_cols(t)[k])[i] # NullOf(key_cols(t)[k])
HasKey(t, i) ==
    \E k \in 1..Len(key_cols(t)) : Col(t, key_cols(t)[k])[i] # NullOf(key_cols(t)[k])

\* the rows the year filter keeps, then those dropna keeps among them
YearFiltered(t) ==
    IF HasCol(t, c_annee)
    THEN KeepRows(t, {i \in 1..Len(t.rows) : YearKeep(Col(t, c_annee)[i])})
    ELSE t

DropAllNull(t) ==
    IF key_cols(t) # <<>>
    THEN KeepRows(t, {i \in 1..Len(t.rows) : HasKey(t, i)})
    ELSE t

clean_raw(t, pandas) == DropAllNull(YearFiltered(CoerceTable(t, pandas, "raw")))

\* The steps after the casts, _downcast_numeric and _categorize, change the
\* dtype of a column and none of its values (TypedDtype above gives the
\* dtypes they leave).

-----------------------------------------------------------------------------
(* Map section: department codes for the geographic join *)

UpperChar(c) ==
    CASE c = "a" -> "A" [] c = "b" -> "B" [] c = "n" -> "N" [] OTHER -> c

str_upper(s) == [i \in 1..Len(s) |-> UpperChar(s[i])]

\* re.sub(r"\D", "", s)
OnlyDigits(s) == SelectSeq(s, LAMBDA c : c \in Digits)

DigitChar(d) == CHOOSE c \in Digits : DigitValue(c) = d

\* str(n) of a natural number
RECURSIVE IntToDigits(_)
IntToDigits(n) ==
    IF n < 10 THEN <<DigitChar(n)>>
    ELSE IntToDigits(n \div 10) \o <<DigitChar(n % 10)>>

\* norm(x) of _zfill_dept, on the text of the cell (astype(str))
norm(x) ==
    LET u == str_upper(strip(AsTypeStr(x)))
        s_digits == OnlyDigits(u)
        n == DigitsToInt(s_digits)
    IN  IF u \in {<<"2", "A">>, <<"2", "B">>} THEN u
        ELSE IF s_digits = <<>> THEN u
        ELSE IF n >= 970 /\ n <= 989 THEN zfill(IntToDigits(n), 3)
        ELSE zfill(IntToDigits(n), 2)

_zfill_dept(series) == [i \in 1..Len(series) |-> norm(series[i])]

-----------------------------------------------------------------------------
(* Coercion specification: a table as read is coerced by one of the two
   variants, then its department column is normalised for the map *)

Y2023 == <<"2", "0", "2", "3">>
YDate == <<"2", "0", "2", "3", "-", "0", "1", "-", "0", "1">>
Y1999 == <<"1", "9", "9", "9">>
Y2000 == <<"2", "0", "0", "0">>
Y2100 == <<"2", "1", "0", "0">>
Y2101 == <<"2", "1", "0", "1">>
Y1500 == <<"1", "5", "0", "0">>
Tabc == <<"a", "b", "c">>
R11 == <<"1", "1">>
D099 == <<"0", "9", "9">>
D2A == <<"2", "A">>
D2B == <<"2", "B">>
D02 == <<"0", "2">>
D971 == <<"9", "7", "1">>
D1sp == <<" ", "1", " ">>
S1 == <<"1">>
S2 == <<"2">>
S10 == <<"1", ".", "0">>
S15 == <<"1", ".", "5">>
P12c5 == <<"1", "2", ",", "5">>
P12p5 == <<"1", "2", ".", "5">>
P7sp == <<" ", "7", " ">>
Pm05 == <<"-", ",", "5", "0">>
P1c2c5 == <<"1", ",", "2", ",", "5">>
Pempty == <<>>
P1u0 == <<"1", "_", "0">>
Pu1 == <<"_", "1">>

FullHeader == <<c_annee, c_region, c_dept, c_sexe, c_prev>>
HeaderWithTri == <<c_annee, c_region, c_dept, c_sexe, c_tri>>

\* the same columns as a source file may spell them
HeaderAsRead ==
    << <<"A", "n", "n", "e'", "e">>, <<" ", "r", "e", "g", "i", "o", "n">>,
       <<"d", "E", "p", "t">>, <<"s", "e", "x", "e", " ">>, c_prev >>

CellUniverse ==
    << {Y2023, YDate, Y1999, Y2000, Y2100, Y2101, Y1500, Tabc, NullStr},
       {R11, NullStr},
       {D99, D099, D2A, D2B, D02, D971, D1sp, NullStr},
       {S1, S2, S10, S15, Tabc, NullStr},
       {P12c5, P12p5, P7sp, Pm05, P1c2c5, Tabc, Pempty, P1u0, Pu1, NullStr} >>

BaseRow == <<Y2023, R11, D099, S1, P12p5>>

KeyPositions == {1, 2, 3, 5}

RawRows ==
    {[BaseRow EXCEPT ![k] = v] : k \in {1}, v \in CellUniverse[1]}
      \cup {[BaseRow EXCEPT ![k] = v] : k \in {2}, v \in CellUniverse[2]}
      \cup {[BaseRow EXCEPT ![k] = v] : k \in {3}, v \in CellUniverse[3]}
      \cup {[BaseRow EXCEPT ![k] = v] : k \in {4}, v \in CellUniverse[4]}
      \cup {[BaseRow EXCEPT ![k] = v] : k \in {5}, v \in CellUniverse[5]}
      \cup {[k \in 1..5 |-> IF k \in N THEN NullStr ELSE BaseRow[k]] :
               N \in SUBSET KeyPositions}
      \cup {<<y, NullStr, NullStr, S1, NullStr>> : y \in {Y1999, Y2000, Tabc, Y1500}}
      \cup {<<NullStr, NullStr, NullStr, S1, Tabc>>}

PairRows ==
    { BaseRow, [BaseRow EXCEPT ![1] = YDate], [BaseRow EXCEPT ![1] = Y1999],
      [BaseRow EXCEPT ![4] = S15], [BaseRow EXCEPT ![3] = D2A],
      <<NullStr, NullStr, NullStr, S1, NullStr>> }

RawTables == {<<r>> : r \in RawRows} \cup SeqsUpTo(PairRows, MaxRawRows)

\* the positions of FullHeader a source file has
HeaderChoices == { <<1, 2, 3, 4, 5>>, <<2, 3, 4, 5>>, <<1, 5>>, <<4>> }

Pandas == {1, 2, 3}

InitCoerce ==
    /\ \E rows \in RawTables, h \in {FullHeader, HeaderAsRead, HeaderWithTri},
             pos \in HeaderChoices :
          /\ h # FullHeader => pos = <<1, 2, 3, 4, 5>>
          /\ raw = [header |-> [k \in 1..Len(pos) |-> h[pos[k]]],
                    rows |-> [i \in 1..Len(rows) |->
                                [k \in 1..Len(pos) |-> rows[i][pos[k]]]]]
    /\ typed = NoTyped
    /\ text = <<>>
    /\ sep = "none"
    /\ last = NoCall
    /\ calls = 0
    /\ NoTableState
    /\ NoCacheState
    /\ NoApp

Coerced(op, pandas, t) ==
    IF CoerceRaises(raw)
    THEN [op |-> op, pandas |-> pandas, raised |-> TRUE,
          columns |-> <<>>, index |-> <<>>, rows |-> <<>>]
    ELSE [op |-> op, pandas |-> pandas, raised |-> FALSE,
          columns |-> t.header, index |-> t.index, rows |-> t.rows]

CoerceCleaned(pandas) ==
    /\ typed.op = "none"
    /\ typed' = Coerced("coerce_cleaned", pandas, coerce_cleaned(raw, pandas))
    /\ raw' = AfterHarmonize(raw, harmonize_columns(raw))
    /\ UNCHANGED <<text, sep>>
    /\ UNCHANGED tableVars
    /\ UNCHANGED cacheVars
    /\ UNCHANGED appVars

CleanRaw(pandas) ==
    /\ typed.op = "none"
    /\ typed' = Coerced("clean_raw", pandas, clean_raw(raw, pandas))
    /\ raw' = AfterHarmonize(raw, harmonize_columns(raw))
    /\ UNCHANGED <<text, sep>>
    /\ UNCHANGED tableVars
    /\ UNCHANGED cacheVars
    /\ UNCHANGED appVars

\* fd["dept"] = _zfill_dept(fd["dept"]) on the coerced table
ZfillDept ==
    LET t == [header |-> typed.columns, rows |-> typed.rows]
    IN  /\ typed.op \in {"coerce_cleaned", "clean_raw"}
        /\ ~typed.raised
        /\ HasCol(t, c_dept)
        /\ last.op = "none"
        /\ last' = [NoCall EXCEPT !.op = "_zfill_dept",
                                  !.before = Col(t, c_dept),
                                  !.frame = _zfill_dept(Col(t, c_dept))]
        /\ UNCHANGED <<df, columns, dtypes, tables, tables_prev, calls>>
        /\ UNCHANGED ingestVars
        /\ UNCHANGED appVars
        /\ UNCHANGED cacheVars

NextCoerce ==
    \/ \E pandas \in Pandas : CoerceCleaned(pandas)
    \/ \E pandas \in Pandas : CleanRaw(pandas)
    \/ ZfillDept

SpecCoerce == InitCoerce /\ [][NextCoerce]_vars

\* the table the last coercion returned, and the cell of the table as read
\* that a returned row comes from (by its index label)
Returned(op) == typed.op = op /\ ~typed.raised
OutTable == [header |-> typed.columns, rows |-> typed.rows]
OutCell(i, c) == Col(OutTable, c)[i]
RawTable == [header |-> typed.columns, rows |-> raw.rows]
RawCell(i, c) == raw.rows[typed.index[i]][ColIndex(OutTable, c)]
Coercions == {"coerce_cleaned", "clean_raw"}

\* C13: department normalization pads numeric codes to width 3, so that
\* "99" and "099" become "099", while "2A" and "2B" are not zero-padded:
\* after coercion followed by _zfill_dept, "2A" is still "2A", "2B" is still
\* "2B" and neither collides with the code of another department.
C13_CorsicaCodesSurviveNormalization ==
    last.op = "_zfill_dept" =>
        \A i \in 1..Len(last.frame) :
            /\ RawCell(i, c_dept) \in {D99, D099} => OutCell(i, c_dept) = D099
            /\ RawCell(i, c_dept) = D2A => last.frame[i] = D2A
            /\ RawCell(i, c_dept) = D2B => last.frame[i] = D2B
            /\ \A j \in 1..Len(last.frame) :
                  (RawCell(i, c_dept) \in {D2A, D2B} /\ last.frame[j] = last.frame[i])
                      => RawCell(j, c_dept) = RawCell(i, c_dept)

\* a text that is an integer numeral
IsIntegerText(x) == x # NullStr /\ x # <<>> /\ AllDigits(x)

\* C14: sex coercion never raises on a malformed value: in both variants a
\* sex value that is not an integer (text, missing, non-integer number)
\* becomes null, an integer-valued string becomes that integer, and the
\* coercion of the whole table completes.
C14_SexCoercionNeverRaises ==
    (typed.op \in Coercions /\ HasCol(harmonize_columns(raw), c_sexe)) =>
        /\ ~typed.raised
        /\ \A i \in 1..Len(typed.rows) :
              OutCell(i, c_sexe) =
                  IF IsIntegerText(RawCell(i, c_sexe))
                  THEN DigitsToInt(RawCell(i, c_sexe))
                  ELSE IF RawCell(i, c_sexe) = S10 THEN 1
                  ELSE NA

\* Reading of a text as a decimal numeral, position by position: the
\* trimmed text with every comma read as a point, an optional sign, digits
\* and at most one point, at least one digit.
Trimmed(x) ==
    LET I == {i \in 1..Len(x) : ~IsSpace(x[i])}
    IN  IF I = {} THEN <<>>
        ELSE SubSeq(x, CHOOSE i \in I : \A j \in I : i <= j,
                       CHOOSE i \in I : \A j \in I : i >= j)

Repaired(x) ==
    LET t == Trimmed(x)
    IN  [i \in 1..Len(t) |-> IF t[i] = "," THEN "." ELSE t[i]]

Unsigned(s) == IF s # <<>> /\ s[1] \in {"+", "-"} THEN Tail(s) ELSE s

\* s is a number Python reads: a sign, digits with single underscores
\* between them, at most one point
IsNumeral(s) ==
    LET u == Unsigned(s)
    IN  /\ \A i \in 1..Len(u) : u[i] \in Digits \cup {".", "_"}
        /\ \A i \in 1..Len(u) :
               u[i] = "_" => /\ 1 < i /\ i < Len(u)
                             /\ u[i - 1] \in Digits /\ u[i + 1] \in Digits
        /\ Cardinality(Positions(u, ".")) <= 1
        /\ \E i \in 1..Len(u) : u[i] \in Digits

RECURSIVE Pow10(_)
Pow10(k) == IF k = 0 THEN 1 ELSE 10 * Pow10(k - 1)

\* number of digits after the point
Decimals(s) ==
    IF Positions(s, ".") = {} THEN 0
    ELSE Cardinality({i \in 1..Len(s) :
                         /\ s[i] \in Digits
                         /\ i > (CHOOSE j \in Positions(s, ".") : TRUE)})

\* the digits of the numeral, weighted by their place, as a whole number
\* of units of 10^-Decimals(s)
Scaled(s) ==
    LET u == Unsigned(s)
        ds == SelectSeq(u, LAMBDA c : c \in Digits)
        abs == SumSeq([k \in 1..Len(ds) |-> DigitValue(ds[k]) * Pow10(Len(ds) - k)])
    IN  IF s[1] = "-" THEN 0 - abs ELSE abs

MeasuresPresent == {c \in SeqToSet(NumericColumns) : HasCol(OutTable, c)}

\* C15: raw numeric repair: in clean_raw every value of a measure column is
\* converted to the number read after trimming white space and replacing
\* "," with ".", and to null when it is missing or the repaired text is not
\* a number; the repair raises on no value (a table without a sex column
\* is always coerced).  "12,5" gives 12.5, "abc" gives null, "" gives null.
C15_RawNumericRepair ==
    /\ (typed.op = "clean_raw" /\ ~HasCol(harmonize_columns(raw), c_sexe))
          => ~typed.raised
    /\ Returned("clean_raw") =>
          \A c \in MeasuresPresent : \A i \in 1..Len(typed.rows) :
              LET x == RawCell(i, c)
                  r == OutCell(i, c)
                  s == Repaired(x)
              IN  /\ (x = NullStr \/ ~IsNumeral(s)) => r = FNull
                  /\ (x # NullStr /\ IsNumeral(s)) =>
                        /\ r # FNull
                        /\ r.m * Pow10(Decimals(s)) = Scaled(s) * Pow10(r.e)
                  /\ x = P12c5 => r = [m |-> 125, e |-> 1]
                  /\ x = Tabc => r = FNull
                  /\ x = Pempty => r = FNull

C15_Witness ==
    /\ Returned("clean_raw")
    /\ HasCol(OutTable, c_prev)
    /\ \E i \in 1..Len(typed.rows) :
          RawCell(i, c_prev) = P12c5 /\ OutCell(i, c_prev) = [m |-> 125, e |-> 1]

\* The rows of the table as read, by position k, after the casts of
\* clean_raw and before its row filters: h is the table as read under the
\* harmonized header (that of the returned table), years the coerced year
\* of each of its rows.
HasRaw(c) == HasCol(harmonize_columns(raw), c)
CastYears == YearColumn(Col(RawTable, c_annee), typed.pandas)
KeptRows == {typed.index[i] : i \in 1..Len(typed.index)}
InRange(y) == y \in 2000..2100

MeasureIsNull(x) == x = NullStr \/ ~IsNumeral(Repaired(x))

\* some key column other than the year holds a value in row k of h
OtherKey(h, k) ==
    \/ HasCol(h, c_region) /\ Col(h, c_region)[k] # NullStr
    \/ HasCol(h, c_dept) /\ Col(h, c_dept)[k] # NullStr
    \/ HasCol(h, c_prev) /\ ~MeasureIsNull(Col(h, c_prev)[k])

\* C16: year range filter of the raw variant: after clean_raw every
\* remaining row has a year that is null or within [2000, 2100]; a row with
\* year 1999 or 2101 is dropped, rows with year 2000 or 2100 are kept, a row
\* with a null year is kept as long as it is not fully uninformative; and
\* coerce_cleaned applies no such filter.
C16_YearRangeFilter ==
    /\ (Returned("clean_raw") /\ HasRaw(c_annee)) =>
          LET h == RawTable
              years == CastYears
              kept == KeptRows
          IN  /\ \A i \in 1..Len(typed.rows) :
                    OutCell(i, c_annee) = NA \/ InRange(OutCell(i, c_annee))
              /\ \A k \in 1..Len(raw.rows) :
                    /\ years[k] \in {1999, 2101} => k \notin kept
                    /\ (years[k] # NA /\ ~InRange(years[k])) => k \notin kept
                    /\ years[k] \in {2000, 2100} => k \in kept
                    /\ InRange(years[k]) => k \in kept
                    /\ (years[k] = NA /\ OtherKey(h, k)) => k \in kept
    /\ Returned("coerce_cleaned") =>
          typed.index = [k \in 1..Len(raw.rows) |-> k]

C16_Witness ==
    /\ Returned("clean_raw")
    /\ Len(raw.rows) = 2
    /\ HasRaw(c_annee)
    /\ CastYears = <<2023, 1999>>
    /\ KeptRows = {1}

\* the key columns the table has
KeysPresent == {c \in {c_annee, c_region, c_dept, c_prev} : HasRaw(c)}

\* row k of h, whose coerced year is y, is null in every key column of h
\* (there is at least one)
AllKeysNull(h, k, y) ==
    /\ \E c \in {c_annee, c_region, c_dept, c_prev} : HasCol(h, c)
    /\ HasCol(h, c_annee) => y = NA
    /\ ~OtherKey(h, k)

\* C17: row-level cleanup of the raw variant: apart from the year range
\* filter, clean_raw drops a row if and only if it is null, after coercion,
\* in all of year, region, department and prevalence (those of the four
\* that exist; when none exists no row is dropped).
C17_DropsOnlyUninformativeRows ==
    Returned("clean_raw") =>
        LET h == RawTable
            years == IF HasCol(h, c_annee) THEN CastYears
                     ELSE [k \in 1..Len(raw.rows) |-> NA]
            kept == KeptRows
        IN  \A k \in 1..Len(raw.rows) :
                IF years[k] = NA \/ InRange(years[k])
                THEN k \notin kept <=> AllKeysNull(h, k, years[k])
                ELSE k \notin kept

C17_Witness ==
    /\ Returned("clean_raw")
    /\ Len(raw.rows) = 2
    /\ KeysPresent = {c_annee, c_region, c_dept, c_prev}
    /\ KeptRows = {2}
    /\ AllKeysNull(RawTable, 1, CastYears[1])
    /\ ~AllKeysNull(RawTable, 2, CastYears[2])

\* a text shaped like a date YYYY-MM-DD
IsDateShaped(x) ==
    /\ Len(x) = 10
    /\ \A i \in {1, 2, 3, 4, 6, 7, 9, 10} : x[i] \in Digits
    /\ x[5] = "-" /\ x[8] = "-"

\* C18: year coercion: in both variants a year value that is date-shaped
\* ("2023-01-01") or a bare integer string ("2023") is converted to the
\* integer calendar year, any value that is neither becomes null, and no
\* value makes the coercion raise (a table without a sex column is always
\* coerced).
C18_YearCoercion ==
    (typed.op \in Coercions /\ HasRaw(c_annee)) =>
        /\ ~HasRaw(c_sexe) => ~typed.raised
        /\ ~typed.raised =>
              \A i \in 1..Len(typed.rows) :
                  LET x == RawCell(i, c_annee)
                  IN  OutCell(i, c_annee) =
                          IF x = NullStr THEN NA
                          ELSE IF IsIntegerText(x) THEN DigitsToInt(x)
                          ELSE IF IsDateShaped(x) THEN DigitsToInt(SubSeq(x, 1, 4))
                          ELSE NA

\* the year a cell of the table as read spells, NA when it spells none
InputYear(x) ==
    IF x = NullStr THEN NA
    ELSE IF IsIntegerText(x) THEN DigitsToInt(x)
    ELSE IF IsDateShaped(x) THEN DigitsToInt(SubSeq(x, 1, 4))
    ELSE NA

\* the table as read h meets the conditions under which the two entry
\* points are said to agree
Agreeable(h) ==
    /\ \A c \in SeqToSet(NumericColumns) : HasCol(h, c) =>
           \A k \in 1..Len(h.rows) : "," \notin SeqToSet(Col(h, c)[k])
    /\ HasCol(h, c_annee) =>
           \A k \in 1..Len(h.rows) :
               \/ Col(h, c_annee)[k] = NullStr
               \/ InRange(InputYear(Col(h, c_annee)[k]))
    /\ \A k \in 1..Len(h.rows) :
           \A K \in {{c \in {c_annee, c_region, c_dept, c_prev} : HasCol(h, c)}} :
               K # {} => \E c \in K : Col(h, c)[k] # NullStr

\* what the other entry point returns for the table as read
OtherVariant ==
    IF typed.op = "coerce_cleaned"
    THEN Coerced("coerce_cleaned", typed.pandas, clean_raw(raw, typed.pandas))
    ELSE Coerced("clean_raw", typed.pandas, coerce_cleaned(raw, typed.pandas))

\* C25: the two coercion entry points differ only in strictness: for every
\* table as read in which no measure value uses a decimal comma, every year
\* is null or within [2000, 2100] and no row is null in all of year, region,
\* department and prevalence, coerce_cleaned and clean_raw return tables
\* with the same rows, the same columns and the same cell values.
C25_VariantsAgreeOnCleanInput ==
    (typed.op \in Coercions /\ Agreeable(harmonize_columns(raw))) =>
        typed = OtherVariant

-----------------------------------------------------------------------------
(* Inputs of the coercion and of the population union *)

\* A table as read and a typed table, on which the coercion functions and
\* the population-union functions are called in any order.
FrameRawTables ==
    { [header |-> h, rows |-> <<r>>] :
          h \in {FullHeader, HeaderAsRead},
          r \in { BaseRow, [BaseRow EXCEPT ![1] = Y1999],
                  <<NullStr, NullStr, NullStr, S1, NullStr>> } }

FrameTables ==
    { <<>>,
      <<Row(2023, D1, A0_4, 1000)>>,
      <<Row(2022, D99, A95etplus, 300)>>,
      <<Row(2023, D1, A0_4, 1000), Row(2023, D99, A0_4, 999)>> }

InitFrame ==
    /\ raw \in FrameRawTables
    /\ typed = NoTyped
    /\ text = <<>>
    /\ sep = "none"
    /\ NoApp
    /\ columns = UnionColumns
    /\ \E t \in FrameTables : df = Project(t, columns)
    /\ dtypes = NumericDtypes
    /\ last = NoCall
    /\ tables = NoTables
    /\ tables_prev = NoTables
    /\ calls = 0
    /\ NoCacheState

NextFrame ==
    \/ Harmonize
    \/ \E pandas \in Pandas : CoerceCleaned(pandas)
    \/ \E pandas \in Pandas : CleanRaw(pandas)
    \/ \E y \in Years, m \in Methods : UnionForYear(y, m)
    \/ \E m \in Methods : UnionByYear(m)
    \/ \E y \in Years, c \in BOOLEAN : UnionAudit(y, c)

SpecFrame == InitFrame /\ [][NextFrame]_vars

\* C26: coercion and the population-union computations do not mutate their
\* input: over a call of harmonize_columns, coerce_cleaned, clean_raw,
\* population_union_for_year, population_union_by_year or
\* population_union_audit, the table passed in keeps its column names, its
\* rows and its cell values.
C26_InputsNotMutated ==
    [][raw' = raw /\ df' = df /\ columns' = columns]_vars

\* clean_raw has renamed the columns and dropped a row in what it returned,
\* and a union has been computed from a code it padded
C26_Witness ==
    /\ Returned("clean_raw")
    /\ typed.columns # raw.header
    /\ Len(typed.rows) < Len(raw.rows)
    /\ last.op = "for_year"
    /\ last.result # NaN
    /\ \E i \in 1..Len(df) : Len(df[i].dept) < 3

====
